---- MODULE Spec2Model ----
(***************************************************************************)
(* Dictation orchestration of linvoc: the speech engines' state machine    *)
(* (VoskEngine, the legacy DictationManager, WhisperEngine,                *)
(* FasterWhisperEngine, ParakeetEngine), the control thread that calls     *)
(* start()/stop()/toggle() and the capture threads of the buffered         *)
(* engines.  One engine instance is modelled; its kind is fixed at         *)
(* construction.  Every statement that reads or writes a field shared      *)
(* between the control thread and a capture thread is a step of its own.   *)
(***************************************************************************)
EXTENDS Integers, Sequences, FiniteSets, TLC

\* ------------------------------------------------------------------ bounds
\* calls of start()/stop()/toggle() made on the engine
MaxCalls == 4
\* capture threads (recording sessions) the engine may spawn
MaxThreads == 2
\* frames the buffer may hold
MaxFrames == 2
\* inject_text calls made on a backend
MaxInjections == 2
\* calls of TextInjector.create / get_instance / inject
MaxSelections == 2
\* process identifiers in use
MaxPids == 2
\* toggle requests delivered to one engine
MaxToggles == 3
\* calls of the main thread in progress at once: one and the handlers interrupting it
MaxNesting == 2

\* ------------------------------------------------------------ enumerations
IDLE == "idle"
RECORDING == "recording"
PROCESSING == "processing"
ERROR == "error"

DictationState == {IDLE, RECORDING, PROCESSING, ERROR}

StreamingKinds == {"vosk", "legacy"}
BufferedKinds == {"whisper", "faster_whisper", "parakeet"}
EngineKinds == StreamingKinds \cup BufferedKinds

\* --------------------------------------------------------------- text
\* A text is a sequence of one-character strings.
RECURSIVE LStrip(_)
LStrip(s) ==
    IF s # <<>> /\ Head(s) = " " THEN LStrip(Tail(s)) ELSE s

RECURSIVE RStrip(_)
RStrip(s) ==
    IF s # <<>> /\ s[Len(s)] = " " THEN RStrip(SubSeq(s, 1, Len(s) - 1)) ELSE s

\* str.strip()
Strip(s) == RStrip(LStrip(s))

\* str.replace(marker, ""): leftmost, non-overlapping occurrences
RECURSIVE RemoveAll(_, _)
RemoveAll(s, marker) ==
    IF Len(s) < Len(marker) THEN s
    ELSE IF SubSeq(s, 1, Len(marker)) = marker
         THEN RemoveAll(SubSeq(s, Len(marker) + 1, Len(s)), marker)
         ELSE <<Head(s)>> \o RemoveAll(Tail(s), marker)

\* re.sub(open .*? close, "", s): each leftmost opening character that has a
\* closing character after it is removed up to the first such closing one
RECURSIVE RegexSweep(_, _, _)
RegexSweep(s, open, close) ==
    IF s = <<>> THEN s
    ELSE IF Head(s) = open /\ \E i \in 2..Len(s) : s[i] = close
         THEN LET j == CHOOSE i \in 2..Len(s) :
                           /\ s[i] = close
                           /\ \A k \in 2..(i - 1) : s[k] # close
              IN RegexSweep(SubSeq(s, j + 1, Len(s)), open, close)
         ELSE <<Head(s)>> \o RegexSweep(Tail(s), open, close)

NON_SPEECH_MARKERS ==
    << <<"[","M","u","s","i","q","u","e","]">>,
       <<"[","M","u","s","i","c","]">>,
       <<"[","M","U","S","I","C","]">>,
       <<"[","A","p","p","l","a","u","d","i","s","s","e","m","e","n","t","s","]">>,
       <<"[","A","p","p","l","a","u","s","e","]">>,
       <<"[","A","P","P","L","A","U","S","E","]">>,
       <<"[","R","i","r","e","s","]">>,
       <<"[","L","a","u","g","h","t","e","r","]">>,
       <<"[","L","A","U","G","H","T","E","R","]">>,
       <<"[","B","r","u","i","t","]">>,
       <<"[","N","o","i","s","e","]">>,
       <<"[","N","O","I","S","E","]">>,
       <<"[","S","i","l","e","n","c","e","]">>,
       <<"[","S","I","L","E","N","C","E","]">>,
       <<"[","I","n","a","u","d","i","b","l","e","]">>,
       <<"[","I","N","A","U","D","I","B","L","E","]">>,
       <<"(","M","u","s","i","q","u","e",")">>,
       <<"(","M","u","s","i","c",")">>,
       <<"*","M","u","s","i","q","u","e","*">>,
       <<"*","M","u","s","i","c","*">>,
       <<".",".",".">> >>

RECURSIVE RemoveMarkers(_, _)
RemoveMarkers(s, i) ==
    IF i > Len(NON_SPEECH_MARKERS) THEN s
    ELSE RemoveMarkers(RemoveAll(s, NON_SPEECH_MARKERS[i]), i + 1)

\* WhisperEngine._filter_non_speech
FilterNonSpeech(text) ==
    IF text = <<>> THEN <<>>
    ELSE Strip(RegexSweep(RegexSweep(RemoveMarkers(text, 1), "[", "]"), "(", ")"))

\* " ".join(texts)
RECURSIVE JoinSpace(_)
JoinSpace(segs) ==
    IF segs = <<>> THEN <<>>
    ELSE IF Len(segs) = 1 THEN segs[1]
    ELSE segs[1] \o <<" ">> \o JoinSpace(Tail(segs))

\* ParakeetEngine._extract_texts on string entries: the stripped, non-empty ones
RECURSIVE ExtractTexts(_)
ExtractTexts(raw) ==
    IF raw = <<>> THEN <<>>
    ELSE LET candidate == Strip(Head(raw))
         IN (IF candidate # <<>> THEN <<candidate>> ELSE <<>>) \o ExtractTexts(Tail(raw))

\* the segment lists a transcription may return
SegmentLists ==
    { <<>>,
      << <<"h","i">> >>,
      << <<" ","o","k"," ">> >>,
      << <<"[","M","u","s","i","c","]">> >>,
      << <<"h","i">>, <<"(","x",")"," ","y">> >>,
      << <<>>, <<" ","o","k"," ">> >> }

\* ------------------------------------------------------------------ state
VARIABLES
    kind,             \* which engine class the instance is
    state,            \* _state
    pending,          \* per thread: the state whose callback the setter is about to run
    callbacks,        \* the arguments on_state_change was called with since the last return
    process,          \* _process: 0 is None, else the recognizer's process id
    procs,            \* recognizer processes that are running
    recording,        \* _recording (buffered engines)
    frames,           \* _frames: each frame carries the capture thread that read it
    audio_thread,     \* _audio_thread: 0 is None
    threads,          \* position of every capture thread
    model,            \* _model is not None
    injector,         \* _injector is not None
    pc,               \* position of the control thread
    call,             \* the method the caller invoked: start, stop or toggle
    fn,               \* the method whose body is running: start or stop
    entry,            \* the state in which that method body was entered
    fault,            \* the setup failure the running call met in the control thread
    ret,              \* the value the running call returns
    calls,            \* calls made so far
    transcribed,      \* frame lists handed to the model during the running call
    injected,         \* texts handed to inject_text during the running call
    texts,            \* texts handed to on_text during the running call
    heard,            \* what the model calls of the running call produced
    signals           \* signals sent to the recognizer during the running call

cfgVars == <<kind>>
notifyVars == <<state, pending, callbacks>>
procVars == <<process, procs>>
capVars == <<recording, frames, audio_thread, threads>>
lazyVars == <<model, injector>>
ctlVars == <<pc, call, fn, entry, fault, ret, calls>>
outVars == <<transcribed, injected, texts, heard, signals>>
vars == <<cfgVars, notifyVars, procVars, capVars, lazyVars, ctlVars, outVars>>

\* the parts of the program outside the engine; the engine's steps leave them alone
VARIABLES
    filtering,        \* a call of _filter_non_speech: its argument and its result
    backend_name,     \* the injection backend object's name: portal, xdotool or ydotool
    tool_path,        \* _xdotool_path / _ydotool_path is not None
    clipboard,        \* the content of the desktop clipboard
    clipboard_orig,   \* the content the clipboard had before the first injection
    clipboard_backup, \* PortalBackend._clipboard_backup
    restorers,        \* the restore threads inject_text has started
    ipc,              \* position of the thread that calls inject_text
    itext,            \* the text inject_text was called with
    iret,             \* what the running inject_text call returns
    launched,         \* external commands run by the running call, with their outcome
    injections,       \* inject_text calls made so far
    all_zero,         \* every external command so far exited with code zero
    env,              \* the desktop: session type, portal, xdotool, ydotool, ydotoold
    instance,         \* TextInjector._instance
    selecting,        \* the running call of TextInjector.create / get_instance / inject
    selections,       \* such calls made so far
    lock,             \* the lock file of the scope: whether it exists, and its text
    status,           \* of every PID: unborn, alive, foreign (alive, another user's), dead
    lockop,           \* of every process: its running call on the lock file
    locks,            \* the lock file of each scope, as the launched programs see it
    app,              \* of every PID: the `linvoc` command launched under it
    resolving,        \* a VoskEngine, its file system, and what get_model_path and start gave
    vosk              \* a VoskEngine whose toggle requests interrupt the main thread

filterVars == <<filtering>>
backendVars == <<backend_name, tool_path, clipboard, clipboard_orig, clipboard_backup,
                 restorers, ipc, itext, iret, launched, injections, all_zero>>
factoryVars == <<env, instance, selecting, selections>>
lockVars == <<lock, status, lockop>>
appVars == <<locks, app>>
pathVars == <<resolving>>
signalVars == <<vosk>>
restVars == <<filterVars, backendVars, factoryVars, lockVars, appVars, pathVars, signalVars>>
allVars == <<vars, restVars>>
\* what the steps of one part of the program leave alone
exceptFilter == <<vars, backendVars, factoryVars, lockVars, appVars, pathVars, signalVars>>
exceptBackend == <<vars, filterVars, factoryVars, lockVars, appVars, pathVars, signalVars>>
exceptFactory == <<vars, filterVars, backendVars, lockVars, appVars, pathVars, signalVars>>
exceptLock == <<vars, filterVars, backendVars, factoryVars, appVars, pathVars, signalVars>>
exceptPath == <<vars, filterVars, backendVars, factoryVars, lockVars, appVars, signalVars>>
exceptApp == <<vars, filterVars, backendVars, factoryVars, lockVars, pathVars, signalVars>>
exceptSignal == <<vars, filterVars, backendVars, factoryVars, lockVars, appVars, pathVars>>

\* no call of _filter_non_speech has been made
FilterIdle == filtering = [text |-> <<>>, done |-> FALSE, out |-> <<>>]

\* an optional text: None or a str
None == [none |-> TRUE, text |-> <<>>]
Some(t) == [none |-> FALSE, text |-> t]
\* `if content:` on an Optional[str]
Truthy(o) == ~o.none /\ o.text # <<>>

\* PortalBackend.__init__ (XdotoolBackend, YdotoolBackend): nothing injected yet
BackendFresh ==
    /\ clipboard_backup = None
    /\ restorers = <<>>
    /\ ipc = "idle"
    /\ itext = <<>>
    /\ iret = "none"
    /\ launched = <<>>
    /\ injections = 0
    /\ all_zero = TRUE

\* no backend is in use
BackendIdle ==
    /\ backend_name = "portal" /\ tool_path = TRUE
    /\ clipboard = <<>> /\ clipboard_orig = <<>>
    /\ BackendFresh

\* a backend object: its class and the call of the factory that constructed it
\* (a call constructs a class at most once); NoObject is None
NoObject == [name |-> "none", id |-> 0]

\* no exception, no value
NoResult == [kind |-> "none", obj |-> NoObject]

\* a desktop with nothing to find
BareEnv == [session |-> "unknown", portal |-> FALSE, xdotool |-> "none",
            ydotool |-> "none", daemon |-> FALSE]

\* no call of the factory is running
NotSelecting ==
    [op |-> "none", force |-> "", pc |-> "idle", rec |-> "none", idx |-> 0,
     built |-> <<>>, probed |-> <<>>, before |-> NoObject, ret |-> NoResult]

\* class TextInjector: `_instance = None`
FactoryFresh ==
    /\ instance = NoObject
    /\ selecting = NotSelecting
    /\ selections = 0

\* the factory is not in use
FactoryIdle ==
    /\ env = BareEnv
    /\ FactoryFresh

\* process identifiers
Pids == 1..MaxPids

\* a lock file text that int() rejects (empty, or not a number)
NotAPid == 0

\* the lock file: absent, or present with a text
Absent == [exists |-> FALSE, text |-> NotAPid]
Record(text) == [exists |-> TRUE, text |-> text]

\* what a call has returned or raised; Pending before that
Pending == [kind |-> "pending", pid |-> NotAPid]
ReturnsNone == [kind |-> "None", pid |-> NotAPid]
ReturnsPid(pid) == [kind |-> "pid", pid |-> pid]
Raises(error) == [kind |-> error, pid |-> NotAPid]

\* a process that is in no call on the lock file
NoLockOp == [op |-> "none", pc |-> "idle", pid |-> NotAPid, ret |-> Pending,
             was |-> "none", alone |-> TRUE, fd |-> FALSE, sent |-> FALSE]

\* no process exists and there is no lock file
LockIdle ==
    /\ lock = Absent
    /\ status = [p \in Pids |-> "unborn"]
    /\ lockop = [p \in Pids |-> NoLockOp]

\* main(): DEFAULT_SCOPE, DAEMON_SCOPE
DEFAULT_SCOPE == "linvoc"
DAEMON_SCOPE == "linvoc-daemon"
Scopes == {DEFAULT_SCOPE, DAEMON_SCOPE}

\* a PID under which no command has been launched yet
NotLaunched == [mode |-> "none", pc |-> "unborn", existing |-> NotAPid,
                code |-> "none", how |-> "none", toggled |-> FALSE]

\* nothing has been launched and no scope has a lock file
AppFresh ==
    /\ locks = [sc \in Scopes |-> Absent]
    /\ app = [p \in Pids |-> NotLaunched]

AppIdle == AppFresh

\* an absent default directory
NoDir == [isdir |-> FALSE, entries |-> {}, mdl |-> FALSE]

\* no VoskEngine is looked at
PathIdle ==
    resolving = [language |-> <<>>, model_dir |-> None, explicit_isdir |-> FALSE,
                 dirs |-> <<NoDir, NoDir>>, binary |-> FALSE,
                 pc |-> "idle", path |-> <<>>, ret |-> "none", state |-> "none",
                 spawned |-> FALSE]

\* a VoskEngine as constructed, the main thread running none of its methods
SignalFresh ==
    [state |-> "idle", process |-> 0, spawned |-> 0, signalled |-> {},
     stack |-> <<>>, toggles |-> 0]

\* no toggle request has reached the engine
SignalIdle == vosk = SignalFresh

RestIdle ==
    FilterIdle /\ BackendIdle /\ FactoryIdle /\ LockIdle /\ AppIdle /\ PathIdle /\ SignalIdle

\* thread 0 is the control thread, 1..MaxThreads are capture threads
CONTROL == 0
CaptureIds == 1..MaxThreads
ThreadIds == {CONTROL} \cup CaptureIds

NoRet == [type |-> "none", val |-> <<>>]
RetBool(b) == [type |-> IF b THEN "True" ELSE "False", val |-> <<>>]
RetStr(s) == [type |-> "str", val |-> s]
RetNone == [type |-> "None", val |-> <<>>]

Spawned == Cardinality({t \in CaptureIds : threads[t] # "none"})
Alive(t) == t # 0 /\ threads[t] \notin {"none", "done"}

\* SpeechEngine.__init__ and the engines' own __init__
EngineInit ==
    /\ state = IDLE
    /\ pending = [t \in ThreadIds |-> "none"]
    /\ callbacks = <<>>
    /\ process = 0
    /\ procs = {}
    /\ recording = FALSE
    /\ frames = <<>>
    /\ audio_thread = 0
    /\ threads = [t \in CaptureIds |-> "none"]
    /\ model = FALSE
    /\ injector = FALSE
    /\ pc = "idle"
    /\ call = "none"
    /\ fn = "none"
    /\ entry = "none"
    /\ fault = "none"
    /\ ret = NoRet
    /\ calls = 0
    /\ transcribed = <<>>
    /\ injected = <<>>
    /\ texts = <<>>
    /\ heard = <<>>
    /\ signals = <<>>

Init ==
    /\ kind \in EngineKinds
    /\ EngineInit
    /\ RestIdle

\* ---------------------------------------------------------------- callbacks
\* Both callbacks are registered.  `callbacks` and `texts` only record the
\* calls made: an engine built without a callback takes the same steps, with
\* the log left out.
on_state_change == TRUE
on_text == TRUE

\* ----------------------------------------------------------- state setter
\* a level-triggered setter: it notifies on every assignment
SetterNotifiesAlways(old, new) == TRUE

\* `if self._state != new_state`
SetterNotifies(old, new) == old # new

\* SpeechEngine.state / DictationManager.state setter run by thread `who`: the
\* assignment takes effect here, the callback runs as the thread's next step
SetState(who, new) ==
    /\ state' = new
    /\ pending' = IF SetterNotifies(state, new) /\ on_state_change
                  THEN [pending EXCEPT ![who] = new]
                  ELSE pending
    /\ UNCHANGED callbacks

\* `self.on_state_change(new_state)` inside the setter
Notify(who) ==
    /\ pending[who] # "none"
    /\ callbacks' = Append(callbacks, pending[who])
    /\ pending' = [pending EXCEPT ![who] = "none"]
    /\ UNCHANGED <<state, cfgVars, procVars, capVars, lazyVars, ctlVars, outVars>>

    /\ UNCHANGED restVars
\* ---------------------------------------------------------- caller's side
\* what toggle() hands back for the method it dispatched to
ToggleResult(f, value) == IF f = "start" THEN RetNone ELSE value

Returns(value) == IF call = "toggle" THEN ToggleResult(fn, value) ELSE value

\* a start needs a free capture-thread slot on a buffered engine
CanStart == kind \in BufferedKinds => Spawned < MaxThreads

CallStart ==
    /\ pc = "idle" /\ calls < MaxCalls /\ CanStart
    /\ pc' = "start_begin" /\ call' = "start" /\ fn' = "start"
    /\ calls' = calls + 1
    /\ UNCHANGED <<ret, entry, fault, cfgVars, notifyVars, procVars, capVars, lazyVars, outVars>>

    /\ UNCHANGED restVars
CallStop ==
    /\ pc = "idle" /\ calls < MaxCalls
    /\ pc' = "stop_begin" /\ call' = "stop" /\ fn' = "stop"
    /\ calls' = calls + 1
    /\ UNCHANGED <<ret, entry, fault, cfgVars, notifyVars, procVars, capVars, lazyVars, outVars>>

    /\ UNCHANGED restVars
\* a toggle that dispatches on the capture flag instead of the state
ToggleTargetByFlag(s, rec) == IF rec THEN "stop" ELSE "start"

\* `if self._state == DictationState.RECORDING`
ToggleTarget(s, rec) == IF s = RECORDING THEN "stop" ELSE "start"

\* SpeechEngine.toggle / DictationManager.toggle
CallToggle ==
    /\ pc = "idle" /\ calls < MaxCalls
    /\ LET target == ToggleTarget(state, recording) IN
        /\ target = "start" => CanStart
        /\ fn' = target
        /\ pc' = IF target = "stop" THEN "stop_begin" ELSE "start_begin"
    /\ call' = "toggle"
    /\ calls' = calls + 1
    /\ UNCHANGED <<ret, entry, fault, cfgVars, notifyVars, procVars, capVars, lazyVars, outVars>>

    /\ UNCHANGED restVars
\* the call returns to its caller; its frame is dropped
Return ==
    /\ pc = "ret" /\ pending[CONTROL] = "none"
    /\ pc' = "idle" /\ call' = "none" /\ fn' = "none" /\ ret' = NoRet
    /\ entry' = "none" /\ fault' = "none"
    /\ callbacks' = <<>>
    /\ transcribed' = <<>> /\ injected' = <<>> /\ texts' = <<>>
    /\ heard' = <<>> /\ signals' = <<>>
    /\ UNCHANGED <<calls, state, pending, cfgVars, procVars, capVars, lazyVars>>

    /\ UNCHANGED restVars
\* ------------------------------------------- streaming engine (and legacy)
\* VoskEngine.start / DictationManager.start: the guard, the lookup of the
\* nerd-dictation executable and the Popen call
StreamStart ==
    /\ pc = "start_begin" /\ kind \in StreamingKinds /\ pending[CONTROL] = "none"
    /\ pc' = "ret"
    /\ entry' = state
    /\ IF state = RECORDING
       THEN /\ ret' = Returns(RetBool(FALSE))
            /\ UNCHANGED <<fault, notifyVars, procVars>>
       ELSE \E found \in BOOLEAN, popen_ok \in BOOLEAN :
              IF found /\ popen_ok
              THEN /\ process' = calls
                   /\ procs' = procs \cup {calls}
                   /\ SetState(CONTROL, RECORDING)
                   /\ ret' = Returns(RetBool(TRUE))
                   /\ UNCHANGED fault
              ELSE /\ fault' = IF found THEN "spawn" ELSE "binary"
                   /\ SetState(CONTROL, ERROR)
                   /\ ret' = Returns(RetBool(FALSE))
                   /\ UNCHANGED procVars
    /\ UNCHANGED <<call, fn, calls, cfgVars, capVars, lazyVars, outVars>>

    /\ UNCHANGED restVars
\* VoskEngine.stop / DictationManager.stop up to `self.state = PROCESSING`
StreamStopBegin ==
    /\ pc = "stop_begin" /\ kind \in StreamingKinds /\ pending[CONTROL] = "none"
    /\ entry' = state
    /\ IF state # RECORDING
       THEN /\ pc' = "ret"
            /\ ret' = Returns(RetStr(<<>>))
            /\ UNCHANGED notifyVars
       ELSE /\ SetState(CONTROL, PROCESSING)
            /\ pc' = IF process # 0 THEN "stop_wait" ELSE "stop_idle"
            /\ UNCHANGED ret
    /\ UNCHANGED <<call, fn, fault, calls, cfgVars, procVars, capVars, lazyVars, outVars>>

    /\ UNCHANGED restVars
\* how terminate() and wait(timeout=2) can end: the recognizer exits in
\* time; the wait times out (or terminate or wait raises OSError) and kill()
\* works; or kill() raises as well
StopOutcomes == {"exited", "killed", "kill_failed"}

\* what stop() sends to the recognizer
StopSignals(outcome) ==
    IF outcome = "exited" THEN <<"terminate">>
    ELSE IF outcome = "killed" THEN <<"terminate", "kill">>
    ELSE <<"terminate", "kill failed">>

\* a stop() that keeps the handle of a process it could not kill
HandleAfterStopUnlessKillFailed(outcome, handle) ==
    IF outcome = "kill_failed" THEN handle ELSE 0

\* `finally: self._process = None`
HandleAfterStop(outcome, handle) == 0

\* terminate(), wait(timeout=2), kill() on timeout or error, `self._process = None`
StreamStopWait ==
    /\ pc = "stop_wait" /\ pending[CONTROL] = "none"
    /\ \E outcome \in StopOutcomes :
         /\ signals' = signals \o StopSignals(outcome)
         /\ process' = HandleAfterStop(outcome, process)
    /\ procs' = procs \ {process}
    /\ pc' = "stop_idle"
    /\ UNCHANGED <<call, fn, entry, fault, ret, calls, cfgVars, notifyVars, capVars, lazyVars,
                   transcribed, injected, texts, heard>>

    /\ UNCHANGED restVars
\* a stop() that hands the recognised text back
StopResultLeaks(text) == text

\* what stop() returns after a recording: `return ""`
StopResult(text) == <<>>

\* a stop() that reports a failed transcription as an engine error
StopFinalStateOnFault(h) ==
    IF h # <<>> /\ h[Len(h)].raised THEN ERROR ELSE IDLE

\* the state stop() ends in, whatever the model calls produced:
\* `self.state = DictationState.IDLE`
StopFinalState(h) == IDLE

\* the text the last transcription of the running call produced
LastText == IF texts # <<>> THEN texts[Len(texts)] ELSE <<>>

\* `self.state = DictationState.IDLE; return ""` (all engines)
StopIdle ==
    /\ pc = "stop_idle" /\ pending[CONTROL] = "none"
    /\ SetState(CONTROL, StopFinalState(heard))
    /\ ret' = Returns(RetStr(StopResult(LastText)))
    /\ pc' = "ret"
    /\ UNCHANGED <<call, fn, entry, fault, calls, cfgVars, procVars, capVars, lazyVars, outVars>>

    /\ UNCHANGED restVars
\* ------------------------------------------------ buffered engines: start
\* _load_model: the model is kept once loaded; Parakeet retries on the CPU
\* when the first attempt failed on (or because of) CUDA
LoadModelOk(k, first_ok, cuda, retry_ok) ==
    first_ok \/ (k = "parakeet" /\ cuda /\ retry_ok)

\* start(): `if self._recording: return False`, is_available(), _load_model()
BufStartBegin ==
    /\ pc = "start_begin" /\ kind \in BufferedKinds /\ pending[CONTROL] = "none"
    /\ entry' = state
    /\ IF recording
       THEN /\ pc' = "ret"
            /\ ret' = Returns(RetBool(FALSE))
            /\ UNCHANGED <<model, fault>>
       ELSE /\ UNCHANGED ret
            /\ \E available \in BOOLEAN, first_ok \in BOOLEAN,
                  cuda \in BOOLEAN, retry_ok \in BOOLEAN :
                 IF ~available
                 THEN pc' = "start_err" /\ fault' = "dependency" /\ UNCHANGED model
                 ELSE IF model \/ LoadModelOk(kind, first_ok, cuda, retry_ok)
                 THEN /\ model' = TRUE
                      /\ pc' = IF kind = "whisper" THEN "start_spawn" ELSE "start_clear"
                      /\ UNCHANGED fault
                 ELSE pc' = "start_err" /\ fault' = "model" /\ UNCHANGED model
    /\ UNCHANGED <<call, fn, calls, injector, cfgVars, notifyVars, procVars, capVars, outVars>>

    /\ UNCHANGED restVars
\* `self.state = DictationState.ERROR; return False`
BufStartErr ==
    /\ pc = "start_err" /\ pending[CONTROL] = "none"
    /\ SetState(CONTROL, ERROR)
    /\ ret' = Returns(RetBool(FALSE))
    /\ pc' = "ret"
    /\ UNCHANGED <<call, fn, entry, fault, calls, cfgVars, procVars, capVars, lazyVars, outVars>>

    /\ UNCHANGED restVars
\* `self._frames = []` (FasterWhisper, Parakeet)
BufStartClear ==
    /\ pc = "start_clear" /\ pending[CONTROL] = "none"
    /\ frames' = <<>>
    /\ pc' = "start_spawn"
    /\ UNCHANGED <<recording, audio_thread, threads, call, fn, entry, fault, ret, calls,
                   cfgVars, notifyVars, procVars, lazyVars, outVars>>

    /\ UNCHANGED restVars
\* `self._recording = True`, then the capture thread is created and started
BufStartSpawn ==
    /\ pc = "start_spawn" /\ pending[CONTROL] = "none"
    /\ Spawned < MaxThreads
    /\ recording' = TRUE
    /\ audio_thread' = Spawned + 1
    /\ threads' = [threads EXCEPT ![Spawned + 1] = "import"]
    /\ pc' = "start_state"
    /\ UNCHANGED <<frames, call, fn, entry, fault, ret, calls, cfgVars, notifyVars, procVars,
                   lazyVars, outVars>>

    /\ UNCHANGED restVars
\* `self.state = DictationState.RECORDING; return True`
BufStartState ==
    /\ pc = "start_state" /\ pending[CONTROL] = "none"
    /\ SetState(CONTROL, RECORDING)
    /\ ret' = Returns(RetBool(TRUE))
    /\ pc' = "ret"
    /\ UNCHANGED <<call, fn, entry, fault, calls, cfgVars, procVars, capVars, lazyVars, outVars>>

    /\ UNCHANGED restVars
\* ------------------------------------------------- buffered engines: stop
\* `if not self._recording: return ""`
BufStopBegin ==
    /\ pc = "stop_begin" /\ kind \in BufferedKinds /\ pending[CONTROL] = "none"
    /\ entry' = state
    /\ IF ~recording
       THEN pc' = "ret" /\ ret' = Returns(RetStr(<<>>))
       ELSE pc' = "stop_state" /\ UNCHANGED ret
    /\ UNCHANGED <<call, fn, fault, calls, cfgVars, notifyVars, procVars, capVars, lazyVars, outVars>>

    /\ UNCHANGED restVars
\* `self.state = DictationState.PROCESSING`
BufStopState ==
    /\ pc = "stop_state" /\ pending[CONTROL] = "none"
    /\ SetState(CONTROL, PROCESSING)
    /\ pc' = "stop_flag"
    /\ UNCHANGED <<call, fn, entry, fault, ret, calls, cfgVars, procVars, capVars, lazyVars, outVars>>

    /\ UNCHANGED restVars
\* `self._recording = False`
BufStopFlag ==
    /\ pc = "stop_flag" /\ pending[CONTROL] = "none"
    /\ recording' = FALSE
    /\ pc' = "stop_join"
    /\ UNCHANGED <<frames, audio_thread, threads, call, fn, entry, fault, ret, calls,
                   cfgVars, notifyVars, procVars, lazyVars, outVars>>

    /\ UNCHANGED restVars
\* the capture thread is not alive, or join() returns because it ended
BufStopJoined ==
    /\ pc = "stop_join" /\ pending[CONTROL] = "none"
    /\ ~Alive(audio_thread)
    /\ pc' = "stop_transcribe"
    /\ UNCHANGED <<call, fn, entry, fault, ret, calls, cfgVars, notifyVars, procVars, capVars,
                   lazyVars, outVars>>

    /\ UNCHANGED restVars
\* join(timeout=30) returns while the capture thread is still alive
BufStopJoinTimeout ==
    /\ pc = "stop_join" /\ pending[CONTROL] = "none"
    /\ Alive(audio_thread)
    /\ pc' = "stop_transcribe"
    /\ UNCHANGED <<call, fn, entry, fault, ret, calls, cfgVars, notifyVars, procVars, capVars,
                   lazyVars, outVars>>

    /\ UNCHANGED restVars
\* _get_injector: "ok" (an injector is at hand), "none" (get_instance raised
\* RuntimeError, which is caught) or "raise" (the lookup itself fails:
\* faster_whisper_engine.py never imports the name TextInjector)
GetInjector(k, cached, backend) ==
    IF cached THEN "ok"
    ELSE IF k = "faster_whisper" THEN "raise"
    ELSE IF backend THEN "ok" ELSE "none"

NoDelivery(cached) == [inj |-> <<>>, txt |-> <<>>, cache |-> cached]

\* WhisperEngine._transcribe_and_inject: every segment is stripped, filtered
\* and, when text is left, injected and reported on its own
RECURSIVE WhisperDeliver(_, _, _, _)
WhisperDeliver(segs, cached, backend, observed) ==
    IF segs = <<>> THEN NoDelivery(cached)
    ELSE LET text == FilterNonSpeech(Strip(Head(segs)))
             got == GetInjector("whisper", cached, backend)
             now == IF text # <<>> /\ got = "ok" THEN TRUE ELSE cached
             rest == WhisperDeliver(Tail(segs), now, backend, observed)
         IN IF text = <<>> THEN rest
            ELSE [inj |-> (IF got = "ok" THEN <<text \o <<" ">>>> ELSE <<>>) \o rest.inj,
                  txt |-> (IF observed THEN <<text>> ELSE <<>>) \o rest.txt,
                  cache |-> rest.cache]

\* the tail shared by FasterWhisper and Parakeet: one text, injected with a
\* trailing space, then reported
DeliverOne(k, text, cached, backend, observed) ==
    LET got == GetInjector(k, cached, backend)
    IN IF text = <<>> \/ got = "raise" THEN NoDelivery(cached)
       ELSE [inj |-> IF got = "ok" THEN <<text \o <<" ">>>> ELSE <<>>,
             txt |-> IF observed THEN <<text>> ELSE <<>>,
             cache |-> cached \/ got = "ok"]

\* FasterWhisperEngine._transcribe_frames after the model call
FasterWhisperDeliver(segs, cached, backend, observed) ==
    DeliverOne("faster_whisper", Strip(JoinSpace(segs)), cached, backend, observed)

\* ParakeetEngine._transcribe_frames after the model call
ParakeetDeliver(segs, cached, backend, observed) ==
    LET found == ExtractTexts(segs)
    IN IF found = <<>> THEN NoDelivery(cached)
       ELSE DeliverOne("parakeet", found[1], cached, backend, observed)

Deliver(k, segs, cached, backend, observed) ==
    IF k = "whisper" THEN WhisperDeliver(segs, cached, backend, observed)
    ELSE IF k = "faster_whisper" THEN FasterWhisperDeliver(segs, cached, backend, observed)
    ELSE ParakeetDeliver(segs, cached, backend, observed)

\* `if self._frames:` and the transcription of the buffer: the WAV file, the
\* model call (which may raise), injection and the text callback
BufStopTranscribe ==
    /\ pc = "stop_transcribe" /\ pending[CONTROL] = "none"
    /\ IF frames = <<>>
       THEN /\ pc' = "stop_idle"
            /\ UNCHANGED <<injector, transcribed, injected, texts, heard>>
       ELSE /\ pc' = "stop_clear"
            /\ IF ~model
               THEN UNCHANGED <<injector, transcribed, injected, texts, heard>>
               ELSE /\ transcribed' = Append(transcribed, frames)
                    /\ \E raised \in BOOLEAN, segs \in SegmentLists, backend \in BOOLEAN :
                         IF raised
                         THEN /\ segs = <<>> /\ ~backend
                              /\ heard' = Append(heard, [raised |-> TRUE, segs |-> <<>>,
                                                         backend |-> FALSE])
                              /\ UNCHANGED <<injector, injected, texts>>
                         ELSE LET d == Deliver(kind, segs, injector, backend, on_text) IN
                              /\ heard' = Append(heard, [raised |-> FALSE, segs |-> segs,
                                                         backend |-> injector \/ backend])
                              /\ injected' = injected \o d.inj
                              /\ texts' = texts \o d.txt
                              /\ injector' = d.cache
    /\ UNCHANGED <<model, signals, call, fn, entry, fault, ret, calls, cfgVars, notifyVars,
                   procVars, capVars>>

    /\ UNCHANGED restVars
\* `self._frames = []` after the transcription
BufStopClear ==
    /\ pc = "stop_clear" /\ pending[CONTROL] = "none"
    /\ frames' = <<>>
    /\ pc' = "stop_idle"
    /\ UNCHANGED <<recording, audio_thread, threads, call, fn, entry, fault, ret, calls,
                   cfgVars, notifyVars, procVars, lazyVars, outVars>>

    /\ UNCHANGED restVars
\* --------------------------------------------------------- capture thread
\* _record_and_transcribe / _capture_audio: `import pyaudio`
CapImport(t) ==
    /\ threads[t] = "import" /\ pending[t] = "none"
    /\ \E ok \in BOOLEAN :
         threads' = [threads EXCEPT ![t] = IF ok THEN "open" ELSE "fail_state"]
    /\ UNCHANGED <<recording, frames, audio_thread, cfgVars, notifyVars, procVars,
                   lazyVars, ctlVars, outVars>>

    /\ UNCHANGED restVars
\* PyAudio() and the opening of the microphone stream
CapOpen(t) ==
    /\ threads[t] = "open" /\ pending[t] = "none"
    /\ \E ok \in BOOLEAN :
         threads' = [threads EXCEPT ![t] =
                        IF ~ok THEN "fail_state"
                        ELSE IF kind = "whisper" THEN "clear" ELSE "loop"]
    /\ UNCHANGED <<recording, frames, audio_thread, cfgVars, notifyVars, procVars,
                   lazyVars, ctlVars, outVars>>

    /\ UNCHANGED restVars
\* the failure path: `self.state = DictationState.ERROR`
CapFailState(t) ==
    /\ threads[t] = "fail_state" /\ pending[t] = "none"
    /\ SetState(t, ERROR)
    /\ threads' = [threads EXCEPT ![t] = "fail_flag"]
    /\ UNCHANGED <<recording, frames, audio_thread, cfgVars, procVars, lazyVars,
                   ctlVars, outVars>>

    /\ UNCHANGED restVars
\* the failure path: `self._recording = False; return`
CapFailFlag(t) ==
    /\ threads[t] = "fail_flag" /\ pending[t] = "none"
    /\ recording' = FALSE
    /\ threads' = [threads EXCEPT ![t] = "done"]
    /\ UNCHANGED <<frames, audio_thread, cfgVars, notifyVars, procVars, lazyVars,
                   ctlVars, outVars>>

    /\ UNCHANGED restVars
\* WhisperEngine._record_and_transcribe: `self._frames = []` once the stream is open
CapClear(t) ==
    /\ threads[t] = "clear" /\ pending[t] = "none"
    /\ frames' = <<>>
    /\ threads' = [threads EXCEPT ![t] = "loop"]
    /\ UNCHANGED <<recording, audio_thread, cfgVars, notifyVars, procVars, lazyVars,
                   ctlVars, outVars>>

    /\ UNCHANGED restVars
\* `while self._recording:`; leaving the loop closes the stream and ends the thread
CapLoop(t) ==
    /\ threads[t] = "loop" /\ pending[t] = "none"
    /\ threads' = [threads EXCEPT ![t] = IF recording THEN "read" ELSE "done"]
    /\ UNCHANGED <<recording, frames, audio_thread, cfgVars, notifyVars, procVars,
                   lazyVars, ctlVars, outVars>>

    /\ UNCHANGED restVars
\* stream.read: the chunk is appended, or the read fails (OSError) and the
\* loop continues without it
CapRead(t) ==
    /\ threads[t] = "read" /\ pending[t] = "none"
    /\ \/ /\ Len(frames) < MaxFrames
          /\ frames' = Append(frames, t)
       \/ UNCHANGED frames
    /\ threads' = [threads EXCEPT ![t] = "loop"]
    /\ UNCHANGED <<recording, audio_thread, cfgVars, notifyVars, procVars, lazyVars,
                   ctlVars, outVars>>

    /\ UNCHANGED restVars
\* ------------------------------------------------------------ specification
Next ==
    \/ CallStart
    \/ CallStop
    \/ CallToggle
    \/ Return
    \/ StreamStart
    \/ StreamStopBegin
    \/ StreamStopWait
    \/ StopIdle
    \/ BufStartBegin
    \/ BufStartErr
    \/ BufStartClear
    \/ BufStartSpawn
    \/ BufStartState
    \/ BufStopBegin
    \/ BufStopState
    \/ BufStopFlag
    \/ BufStopJoined
    \/ BufStopJoinTimeout
    \/ BufStopTranscribe
    \/ BufStopClear
    \/ \E t \in ThreadIds : Notify(t)
    \/ \E t \in CaptureIds : CapImport(t)
    \/ \E t \in CaptureIds : CapOpen(t)
    \/ \E t \in CaptureIds : CapFailState(t)
    \/ \E t \in CaptureIds : CapFailFlag(t)
    \/ \E t \in CaptureIds : CapClear(t)
    \/ \E t \in CaptureIds : CapLoop(t)
    \/ \E t \in CaptureIds : CapRead(t)

Spec == Init /\ [][Next]_vars


\* ------------------------------------------------ the non-speech filter alone
\* an engine that is built and left alone
EngineIdle == kind = "whisper" /\ EngineInit

\* a transcription with annotations: music, speech, applause, speech, ellipsis
AnnotatedPhrase ==
    <<"[","M","u","s","i","q","u","e","]"," ","B","o","n","j","o","u","r"," ","(","A","p","p","l","a","u","d","i","s","s","e","m","e","n","t","s",")"," ","l","e"," ","m","o","n","d","e",".",".",".">>

\* the texts handed to the filter: every contiguous part of the phrase
FilterInputs ==
    {<<>>} \cup { SubSeq(AnnotatedPhrase, i, j) :
                     i \in 1..Len(AnnotatedPhrase), j \in 1..Len(AnnotatedPhrase) }

FilterInit ==
    /\ EngineIdle /\ BackendIdle /\ FactoryIdle /\ LockIdle /\ AppIdle /\ PathIdle /\ SignalIdle
    /\ filtering \in { [text |-> t, done |-> FALSE, out |-> <<>>] : t \in FilterInputs }

\* text = self._filter_non_speech(text)
FilterCall ==
    /\ ~filtering.done
    /\ filtering' = [filtering EXCEPT !.done = TRUE, !.out = FilterNonSpeech(filtering.text)]
    /\ UNCHANGED exceptFilter

FilterNext ==
    \/ FilterCall

FilterSpec == FilterInit /\ [][FilterNext]_allVars


\* ------------------------------------------------------- injection backends
Backends == {"portal", "xdotool", "ydotool"}

\* a character no command-line argument can carry
NUL == "\\0"
HasNul(text) == \E i \in 1..Len(text) : text[i] = NUL

\* the texts handed to inject_text
InjectTexts == { <<>>, <<"h", "i">>, <<"a", NUL, "b">> }

\* what the clipboard may hold before the first injection
ClipboardTexts == { <<>>, <<"o", "l", "d">> }

\* subprocess.run: the command exits with code zero, exits with another code,
\* or the call raises (TimeoutExpired, or OSError for a command that is missing
\* or cannot be started)
RunOutcomes == {"zero", "nonzero", "raised"}

\* subprocess.run with the text as an argument: an argument holding a NUL
\* makes the call raise ValueError before any process exists
ArgOutcomes(text) == IF HasNul(text) THEN {"valueerror"} ELSE RunOutcomes

Ran(cmd, out) == [cmd |-> cmd, out |-> out]

\* try: result = subprocess.run(...); if result.returncode == 0: return ...
\* except Exception: pass -- and on to the next command
RECURSIVE TryInOrder(_, _)
TryInOrder(cmds, outs) ==
    IF cmds = <<>> THEN <<>>
    ELSE <<Ran(Head(cmds), Head(outs))>> \o
         (IF Head(outs) = "zero" THEN <<>> ELSE TryInOrder(Tail(cmds), Tail(outs)))

\* the chain ended on a command that exited zero
Succeeded(runs) == runs # <<>> /\ runs[Len(runs)].out = "zero"

AllZero(runs) == \A i \in 1..Len(runs) : runs[i].out = "zero"

BackupTools == <<"wl-paste", "xclip -o">>
SetTools == <<"wl-copy", "xclip">>

\* a paste that never falls back to xdotool
PasteToolsWaylandOnly == <<"ydotool key", "wtype">>

\* PortalBackend._simulate_paste: ydotool, then wtype, then xdotool
PasteTools == <<"ydotool key", "wtype", "xdotool key">>

\* PortalBackend._backup_clipboard
BackupClipboard(outs) == TryInOrder(BackupTools, outs)
\* PortalBackend._set_clipboard
SetClipboard(outs) == TryInOrder(SetTools, outs)
\* PortalBackend._simulate_paste
SimulatePaste(outs) == TryInOrder(PasteTools, outs)

\* PortalBackend._restore_clipboard: wl-copy, and xclip only when wl-copy raised
RestoreClipboard(outs) ==
    <<Ran("wl-copy", outs[1])>> \o
    (IF outs[1] = "raised" THEN <<Ran("xclip", outs[2])>> ELSE <<>>)

BoolRet(b) == IF b THEN "True" ELSE "False"

BackendInit ==
    /\ EngineIdle /\ FilterIdle /\ FactoryIdle /\ LockIdle /\ AppIdle /\ PathIdle /\ SignalIdle
    /\ backend_name \in Backends
    /\ tool_path \in (IF backend_name = "portal" THEN {TRUE} ELSE BOOLEAN)
    /\ clipboard \in ClipboardTexts
    /\ clipboard_orig = clipboard
    /\ BackendFresh

\* backend.inject_text(text) is called
InjectCall ==
    /\ ipc = "idle" /\ injections < MaxInjections
    /\ \E text \in InjectTexts : itext' = text
    /\ ipc' = "begin"
    /\ injections' = injections + 1
    /\ UNCHANGED <<backend_name, tool_path, clipboard, clipboard_orig, clipboard_backup,
                   restorers, iret, launched, all_zero>>
    /\ UNCHANGED exceptBackend

\* inject_text returns (or raises) to its caller
InjectReturn ==
    /\ ipc = "ret"
    /\ ipc' = "idle" /\ itext' = <<>> /\ iret' = "none" /\ launched' = <<>>
    /\ UNCHANGED <<backend_name, tool_path, clipboard, clipboard_orig, clipboard_backup,
                   restorers, injections, all_zero>>
    /\ UNCHANGED exceptBackend

\* the answer of `xdotool type` as XdotoolBackend takes it:
\* `except subprocess.TimeoutExpired` and `except Exception` both return False
XdotoolResult(out) == BoolRet(out = "zero")

\* XdotoolBackend.inject_text
XdotoolInject ==
    /\ ipc = "begin" /\ backend_name = "xdotool"
    /\ ipc' = "ret"
    /\ IF ~tool_path
       THEN iret' = "False" /\ UNCHANGED <<launched, all_zero>>
       ELSE IF itext = <<>>
       THEN iret' = "True" /\ UNCHANGED <<launched, all_zero>>
       ELSE \E out \in ArgOutcomes(itext) :
              /\ launched' = launched \o <<Ran("xdotool type", out)>>
              /\ all_zero' = (all_zero /\ out = "zero")
              /\ iret' = XdotoolResult(out)
    /\ UNCHANGED <<backend_name, tool_path, clipboard, clipboard_orig, clipboard_backup,
                   restorers, itext, injections>>
    /\ UNCHANGED exceptBackend

\* the answer of `ydotool type` as YdotoolBackend takes it: only TimeoutExpired,
\* OSError and SubprocessError are caught
YdotoolResult(out) ==
    IF out = "valueerror" THEN "raise" ELSE BoolRet(out = "zero")

\* YdotoolBackend.inject_text: is_available() (the path, then pgrep -x
\* ydotoold), the empty-text test, then `ydotool type`
YdotoolInject ==
    /\ ipc = "begin" /\ backend_name = "ydotool"
    /\ ipc' = "ret"
    /\ IF ~tool_path
       THEN iret' = "False" /\ UNCHANGED <<launched, all_zero>>
       ELSE \E daemon \in RunOutcomes :
              IF daemon # "zero"
              THEN /\ launched' = launched \o <<Ran("pgrep", daemon)>>
                   /\ all_zero' = FALSE
                   /\ iret' = "False"
              ELSE IF itext = <<>>
              THEN /\ launched' = launched \o <<Ran("pgrep", daemon)>>
                   /\ iret' = "True"
                   /\ UNCHANGED all_zero
              ELSE \E out \in ArgOutcomes(itext) :
                     /\ launched' = launched \o <<Ran("pgrep", daemon), Ran("ydotool type", out)>>
                     /\ all_zero' = (all_zero /\ out = "zero")
                     /\ iret' = YdotoolResult(out)
    /\ UNCHANGED <<backend_name, tool_path, clipboard, clipboard_orig, clipboard_backup,
                   restorers, itext, injections>>
    /\ UNCHANGED exceptBackend

\* PortalBackend.inject_text: `if not text: return True`
PortalBegin ==
    /\ ipc = "begin" /\ backend_name = "portal"
    /\ IF itext = <<>>
       THEN ipc' = "ret" /\ iret' = "True"
       ELSE ipc' = "backup" /\ UNCHANGED iret
    /\ UNCHANGED <<backend_name, tool_path, clipboard, clipboard_orig, clipboard_backup,
                   restorers, itext, launched, injections, all_zero>>
    /\ UNCHANGED exceptBackend

\* `self._clipboard_backup = self._backup_clipboard()`
PortalBackup ==
    /\ ipc = "backup"
    /\ \E outs \in [1..2 -> RunOutcomes] :
         LET runs == BackupClipboard(outs) IN
         /\ launched' = launched \o runs
         /\ all_zero' = (all_zero /\ AllZero(runs))
         /\ clipboard_backup' = IF Succeeded(runs) THEN Some(clipboard) ELSE None
    /\ ipc' = "set"
    /\ UNCHANGED <<backend_name, tool_path, clipboard, clipboard_orig, restorers,
                   itext, iret, injections>>
    /\ UNCHANGED exceptBackend

\* `if not self._set_clipboard(text): return False`
PortalSet ==
    /\ ipc = "set"
    /\ \E outs \in [1..2 -> RunOutcomes] :
         LET runs == SetClipboard(outs) IN
         /\ launched' = launched \o runs
         /\ all_zero' = (all_zero /\ AllZero(runs))
         /\ IF Succeeded(runs)
            THEN clipboard' = itext /\ ipc' = "paste" /\ UNCHANGED iret
            ELSE UNCHANGED clipboard /\ ipc' = "finally" /\ iret' = "False"
    /\ UNCHANGED <<backend_name, tool_path, clipboard_orig, clipboard_backup, restorers,
                   itext, injections>>
    /\ UNCHANGED exceptBackend

\* `success = self._simulate_paste()` ... `return success`
PortalPaste ==
    /\ ipc = "paste"
    /\ \E outs \in [1..Len(PasteTools) -> RunOutcomes] :
         LET runs == SimulatePaste(outs) IN
         /\ launched' = launched \o runs
         /\ all_zero' = (all_zero /\ AllZero(runs))
         /\ iret' = BoolRet(Succeeded(runs))
    /\ ipc' = "finally"
    /\ UNCHANGED <<backend_name, tool_path, clipboard, clipboard_orig, clipboard_backup,
                   restorers, itext, injections>>
    /\ UNCHANGED exceptBackend

\* the finally clause: `if self._clipboard_backup:` a restore thread is started
PortalFinally ==
    /\ ipc = "finally"
    /\ restorers' = IF Truthy(clipboard_backup)
                    THEN Append(restorers, [pc |-> "sleep", content |-> None])
                    ELSE restorers
    /\ ipc' = "ret"
    /\ UNCHANGED <<backend_name, tool_path, clipboard, clipboard_orig, clipboard_backup,
                   itext, iret, launched, injections, all_zero>>
    /\ UNCHANGED exceptBackend

\* restore(): after the sleep, `self._clipboard_backup` is read
RestoreRead(r) ==
    /\ restorers[r].pc = "sleep"
    /\ restorers' = [restorers EXCEPT ![r] = [pc |-> "write", content |-> clipboard_backup]]
    /\ UNCHANGED <<backend_name, tool_path, clipboard, clipboard_orig, clipboard_backup,
                   ipc, itext, iret, launched, injections, all_zero>>
    /\ UNCHANGED exceptBackend

\* restore(): `self._restore_clipboard(content)`
RestoreWrite(r) ==
    /\ restorers[r].pc = "write"
    /\ restorers' = [restorers EXCEPT ![r] = [pc |-> "done", content |-> None]]
    /\ IF ~Truthy(restorers[r].content)
       THEN UNCHANGED <<clipboard, all_zero>>
       ELSE \E outs \in [1..2 -> RunOutcomes] :
              LET runs == RestoreClipboard(outs) IN
              /\ clipboard' = IF Succeeded(runs) THEN restorers[r].content.text ELSE clipboard
              /\ all_zero' = (all_zero /\ AllZero(runs))
    /\ UNCHANGED <<backend_name, tool_path, clipboard_orig, clipboard_backup,
                   ipc, itext, iret, launched, injections>>
    /\ UNCHANGED exceptBackend

BackendNext ==
    \/ InjectCall
    \/ InjectReturn
    \/ XdotoolInject
    \/ YdotoolInject
    \/ PortalBegin
    \/ PortalBackup
    \/ PortalSet
    \/ PortalPaste
    \/ PortalFinally
    \/ \E r \in 1..Len(restorers) : RestoreRead(r)
    \/ \E r \in 1..Len(restorers) : RestoreWrite(r)

BackendSpec == BackendInit /\ [][BackendNext]_allVars


\* ------------------------------------------- environment and backend factory
\* SessionType
SessionTypes == {"x11", "wayland", "unknown"}

\* where a command is: nowhere, on the PATH, or only beside the Python executable
ToolPlaces == {"none", "path", "venv"}

\* ydotool is looked up with get_executable_path only, which does not tell
\* the PATH from the directory of the Python executable
YdotoolPlaces == {"none", "path"}

Envs == [session : SessionTypes, portal : BOOLEAN, xdotool : ToolPlaces,
         ydotool : YdotoolPlaces, daemon : BOOLEAN]

\* EnvironmentDetector.get_executable_path: shutil.which(name), then
\* shutil.which(name, path=<directory of sys.executable>)
get_executable_path(place) == place # "none"

\* shutil.which(name)
which(place) == place = "path"

has_portal_support(e) == e.portal
has_xdotool(e) == get_executable_path(e.xdotool)
has_ydotool(e) == get_executable_path(e.ydotool)

\* a recommendation that does not look at the session type
get_recommended_backend_any_session(e) ==
    IF has_portal_support(e) THEN "portal"
    ELSE IF has_xdotool(e) THEN "xdotool"
    ELSE IF has_ydotool(e) THEN "ydotool"
    ELSE "none"

\* EnvironmentDetector.get_recommended_backend
get_recommended_backend(e) ==
    IF e.session = "wayland" /\ has_portal_support(e) THEN "portal"
    ELSE IF e.session = "wayland" /\ has_ydotool(e) THEN "ydotool"
    ELSE IF e.session = "x11" /\ has_xdotool(e) THEN "xdotool"
    ELSE IF has_portal_support(e) THEN "portal"
    ELSE IF has_xdotool(e) THEN "xdotool"
    ELSE IF has_ydotool(e) THEN "ydotool"
    ELSE "none"

\* is_available() of a backend constructed now: PortalBackend (the portal
\* answers on D-Bus), XdotoolBackend (shutil.which found xdotool),
\* YdotoolBackend (the command was found and pgrep finds ydotoold)
is_available(name, e) ==
    IF name = "portal" THEN e.portal
    ELSE IF name = "xdotool" THEN which(e.xdotool)
    ELSE get_executable_path(e.ydotool) /\ e.daemon

\* `backend = BackendClass(); backend.is_available()`: the answer, or an exception
Probe(name, e, raises) ==
    IF raises THEN "raise" ELSE IF is_available(name, e) THEN "yes" ELSE "no"

\* a factory with one order for every recommendation
PriorityFixed(recommended) == <<"xdotool", "portal", "ydotool">>

\* TextInjector.create: the order of priority for a recommendation
Priority(recommended) ==
    IF recommended = "portal" THEN <<"portal", "xdotool", "ydotool">>
    ELSE IF recommended = "xdotool" THEN <<"xdotool", "portal", "ydotool">>
    ELSE IF recommended = "ydotool" THEN <<"ydotool", "portal", "xdotool">>
    ELSE <<"xdotool", "portal", "ydotool">>

\* Python's None as the force_backend argument
PyNone == "<None>"

\* the values passed as force_backend
ForceArgs == {PyNone, "", "xdotool", "portal", "ydotool", "bogus"}

\* `if force_backend:`
Forced(f) == f # PyNone /\ f # ""

\* a factory that reports an unknown name like an unavailable backend
UnknownNameErrorSame == "RuntimeError: unavailable"

\* `raise ValueError(f"Backend inconnu: {force_backend}")`
UnknownNameError == "ValueError"

Raise(error) == [kind |-> error, obj |-> NoObject]

\* the value handed back: the backend, or for inject() what that backend's
\* inject_text returned
Result(op, obj) ==
    [kind |-> IF op = "inject" THEN "injected" ELSE "backend", obj |-> obj]

FactoryInit ==
    /\ EngineIdle /\ FilterIdle /\ BackendIdle /\ LockIdle /\ AppIdle /\ PathIdle /\ SignalIdle
    /\ env \in Envs
    /\ FactoryFresh

\* the desktop changes: a command is installed or removed, the daemon or the
\* portal starts or stops, the session variables change
EnvChange ==
    /\ \E e \in Envs :
         /\ Cardinality({f \in DOMAIN e : e[f] # env[f]}) = 1
         /\ env' = e
    /\ UNCHANGED <<instance, selecting, selections>>
    /\ UNCHANGED exceptFactory

\* TextInjector.create(force_backend), get_instance() or inject(text) is called
SelectCall ==
    /\ selecting.pc = "idle" /\ selections < MaxSelections
    /\ \E op \in {"create", "get_instance", "inject"}, force \in ForceArgs :
         /\ op # "create" => force = PyNone
         /\ selecting' = [NotSelecting EXCEPT
                             !.op = op, !.force = force, !.before = instance,
                             !.pc = IF op = "create" THEN "create" ELSE "get_instance"]
    /\ selections' = selections + 1
    /\ UNCHANGED <<env, instance>>
    /\ UNCHANGED exceptFactory

\* a get_instance that builds a backend on every call
GetInstanceCreatesAlways(inst) == TRUE

\* `if cls._instance is None`
GetInstanceCreates(inst) == inst = NoObject

\* TextInjector.get_instance (and inject, which calls it)
GetInstance ==
    /\ selecting.pc = "get_instance"
    /\ selecting' = IF GetInstanceCreates(instance)
                    THEN [selecting EXCEPT !.pc = "create"]
                    ELSE [selecting EXCEPT !.pc = "ret", !.ret = Result(selecting.op, instance)]
    /\ UNCHANGED <<env, instance, selections>>
    /\ UNCHANGED exceptFactory

\* TextInjector.create: the forced branch, or on to the recommendation
Create ==
    /\ selecting.pc = "create"
    /\ IF ~Forced(selecting.force)
       THEN /\ selecting' = [selecting EXCEPT !.pc = "recommend"]
            /\ UNCHANGED instance
       ELSE IF selecting.force \notin Backends
       THEN /\ selecting' = [selecting EXCEPT !.pc = "ret", !.ret = Raise(UnknownNameError)]
            /\ UNCHANGED instance
       ELSE \E raises \in BOOLEAN :
              LET out == Probe(selecting.force, env, raises)
                  obj == [name |-> selecting.force, id |-> selections]
              IN /\ instance' = IF out = "yes" THEN obj ELSE instance
                 /\ selecting' = [selecting EXCEPT
                        !.built = Append(@, selecting.force),
                        !.probed = Append(@, out),
                        !.pc = "ret",
                        !.ret = IF out = "yes" THEN Result(selecting.op, obj)
                                ELSE IF out = "no" THEN Raise("RuntimeError: unavailable")
                                ELSE Raise("Exception")]
    /\ UNCHANGED <<env, selections>>
    /\ UNCHANGED exceptFactory

\* `recommended = EnvironmentDetector.get_recommended_backend()`
Recommend ==
    /\ selecting.pc = "recommend"
    /\ selecting' = [selecting EXCEPT !.rec = get_recommended_backend(env),
                                      !.idx = 1, !.pc = "probe"]
    /\ UNCHANGED <<env, instance, selections>>
    /\ UNCHANGED exceptFactory

\* one turn of `for BackendClass in priority:`, or the RuntimeError after it
ProbeBackend ==
    /\ selecting.pc = "probe"
    /\ IF selecting.idx > Len(Priority(selecting.rec))
       THEN /\ selecting' = [selecting EXCEPT !.pc = "ret",
                                              !.ret = Raise("RuntimeError: no backend")]
            /\ UNCHANGED instance
       ELSE \E raises \in BOOLEAN :
              LET name == Priority(selecting.rec)[selecting.idx]
                  out == Probe(name, env, raises)
                  obj == [name |-> name, id |-> selections]
              IN /\ instance' = IF out = "yes" THEN obj ELSE instance
                 /\ selecting' = IF out = "yes"
                                 THEN [selecting EXCEPT !.built = Append(@, name),
                                                        !.probed = Append(@, out),
                                                        !.pc = "ret",
                                                        !.ret = Result(selecting.op, obj)]
                                 ELSE [selecting EXCEPT !.built = Append(@, name),
                                                        !.probed = Append(@, out),
                                                        !.idx = @ + 1]
    /\ UNCHANGED <<env, selections>>
    /\ UNCHANGED exceptFactory

\* the call returns or raises to its caller
SelectReturn ==
    /\ selecting.pc = "ret"
    /\ selecting' = NotSelecting
    /\ UNCHANGED <<env, instance, selections>>
    /\ UNCHANGED exceptFactory

FactoryNext ==
    \/ EnvChange
    \/ SelectCall
    \/ GetInstance
    \/ Create
    \/ Recommend
    \/ ProbeBackend
    \/ SelectReturn

FactorySpec == FactoryInit /\ [][FactoryNext]_allVars


\* ------------------------------------------------------------ the lock file
\* the PID a process writes is its own: os.getpid()
LockTexts == Pids \cup {NotAPid}

\* os.kill(pid, 0) and os.kill(pid, signal.SIGUSR1): what the call raises
Signal0(st) ==
    IF st = "alive" THEN "ok"
    ELSE IF st = "foreign" THEN "PermissionError"
    ELSE "ProcessLookupError"

\* a get_running_pid that does not expect the process to be gone
CaughtNotLookup == {"ValueError", "PermissionError"}

\* `except (ValueError, ProcessLookupError, PermissionError):`
Caught == {"ValueError", "ProcessLookupError", "PermissionError"}

\* what get_running_pid finds when it is called
Found(l, st) ==
    IF ~l.exists THEN "absent"
    ELSE IF l.text = NotAPid THEN "garbled"
    ELSE IF st[l.text] \in {"unborn", "dead"} THEN "stale"
    ELSE "live"

\* the other processes after process p changed the lock file (or a PID came
\* into use): a running get_running_pid is no longer alone, and after an
\* unlink an open file descriptor no longer writes to the file of that name
Disturb(ops, p, unlinked) ==
    [q \in Pids |->
        IF q = p THEN ops[q]
        ELSE [ops[q] EXCEPT !.alone = (ops[q].op # "get_running_pid"),
                            !.fd = IF unlinked THEN FALSE ELSE @]]

LockInit ==
    /\ EngineIdle /\ FilterIdle /\ BackendIdle /\ FactoryIdle /\ AppIdle /\ PathIdle /\ SignalIdle
    /\ lock \in {Absent} \cup {Record(t) : t \in LockTexts}
    /\ status \in [Pids -> {"unborn", "alive", "foreign", "dead"}]
    /\ lockop = [p \in Pids |-> NoLockOp]

\* a process starts under this PID, as this user or as another one
Spawn(p) ==
    /\ status[p] = "unborn"
    /\ \E st \in {"alive", "foreign"} : status' = [status EXCEPT ![p] = st]
    /\ lockop' = Disturb(lockop, p, FALSE)
    /\ UNCHANGED lock
    /\ UNCHANGED exceptLock

\* a process ends, wherever it is
Die(p) ==
    /\ status[p] \in {"alive", "foreign"}
    /\ status' = [status EXCEPT ![p] = "dead"]
    /\ lockop' = [lockop EXCEPT ![p] = NoLockOp]
    /\ UNCHANGED lock
    /\ UNCHANGED exceptLock

\* get_running_pid(scope): `if not lock_file.exists(): return None`
GetRunningPidCall(p) ==
    /\ status[p] = "alive" /\ lockop[p].pc = "idle"
    /\ lockop' = [lockop EXCEPT ![p] =
                    IF ~lock.exists
                    THEN [NoLockOp EXCEPT !.op = "get_running_pid", !.pc = "ret",
                                          !.ret = ReturnsNone, !.was = Found(lock, status)]
                    ELSE [NoLockOp EXCEPT !.op = "get_running_pid", !.pc = "read",
                                          !.was = Found(lock, status)]]
    /\ UNCHANGED <<lock, status>>
    /\ UNCHANGED exceptLock

\* `pid = int(lock_file.read_text().strip())`
GetRunningPidRead(p) ==
    /\ status[p] = "alive" /\ lockop[p].pc = "read"
    /\ lockop' = [lockop EXCEPT ![p] =
                    IF ~lock.exists
                    THEN [@ EXCEPT !.pc = "ret", !.ret = Raises("FileNotFoundError")]
                    ELSE IF lock.text = NotAPid
                    THEN IF "ValueError" \in Caught
                         THEN [@ EXCEPT !.pc = "unlink"]
                         ELSE [@ EXCEPT !.pc = "ret", !.ret = Raises("ValueError")]
                    ELSE [@ EXCEPT !.pc = "kill", !.pid = lock.text]]
    /\ UNCHANGED <<lock, status>>
    /\ UNCHANGED exceptLock

\* `os.kill(pid, 0); return pid`
GetRunningPidKill(p) ==
    /\ status[p] = "alive" /\ lockop[p].pc = "kill"
    /\ LET out == Signal0(status[lockop[p].pid])
       IN lockop' = [lockop EXCEPT ![p] =
                       IF out = "ok"
                       THEN [@ EXCEPT !.pc = "ret", !.ret = ReturnsPid(lockop[p].pid)]
                       ELSE IF out \in Caught
                       THEN [@ EXCEPT !.pc = "unlink"]
                       ELSE [@ EXCEPT !.pc = "ret", !.ret = Raises(out)]]
    /\ UNCHANGED <<lock, status>>
    /\ UNCHANGED exceptLock

\* `lock_file.unlink(missing_ok=True); return None`
GetRunningPidUnlink(p) ==
    /\ status[p] = "alive" /\ lockop[p].pc = "unlink"
    /\ lock' = Absent
    /\ lockop' = [Disturb(lockop, p, TRUE) EXCEPT
                    ![p] = [@ EXCEPT !.pc = "ret", !.ret = ReturnsNone]]
    /\ UNCHANGED status
    /\ UNCHANGED exceptLock

\* the call on the lock file returns or raises to its caller
LockReturn(p) ==
    /\ status[p] = "alive" /\ lockop[p].pc = "ret"
    /\ lockop' = [lockop EXCEPT ![p] = NoLockOp]
    /\ UNCHANGED <<lock, status>>
    /\ UNCHANGED exceptLock

\* create_lock(scope): write_text opens the file for writing, which creates
\* it or empties it
CreateLockOpen(p) ==
    /\ status[p] = "alive" /\ lockop[p].pc = "idle"
    /\ lock' = Record(NotAPid)
    /\ lockop' = [Disturb(lockop, p, FALSE) EXCEPT
                    ![p] = [NoLockOp EXCEPT !.op = "create_lock", !.pc = "write", !.fd = TRUE]]
    /\ UNCHANGED status
    /\ UNCHANGED exceptLock

\* create_lock(scope): write_text writes str(os.getpid()) and closes the file
CreateLockWrite(p) ==
    /\ status[p] = "alive" /\ lockop[p].pc = "write"
    /\ lock' = IF lockop[p].fd THEN Record(p) ELSE lock
    /\ lockop' = [Disturb(lockop, p, FALSE) EXCEPT
                    ![p] = [@ EXCEPT !.pc = "ret", !.ret = ReturnsNone, !.fd = FALSE]]
    /\ UNCHANGED status
    /\ UNCHANGED exceptLock

\* remove_lock(scope)
RemoveLock(p) ==
    /\ status[p] = "alive" /\ lockop[p].pc = "idle"
    /\ lock' = Absent
    /\ lockop' = Disturb(lockop, p, TRUE)
    /\ UNCHANGED status
    /\ UNCHANGED exceptLock

\* a send_toggle_signal that expects only a vanished target
ToggleCaughtNotPermission == {"ProcessLookupError"}

\* `except (ProcessLookupError, PermissionError):` of send_toggle_signal
ToggleCaught == {"ProcessLookupError", "PermissionError"}

\* `return True` / `return False`
ReturnsBool(b) == [kind |-> IF b THEN "True" ELSE "False", pid |-> NotAPid]

\* send_toggle_signal(pid): os.kill(pid, signal.SIGUSR1); the frame keeps
\* the target and whether the signal was sent to it
SendToggleSignal(p, target) ==
    /\ status[p] = "alive" /\ lockop[p].pc = "idle"
    /\ LET out == Signal0(status[target])
       IN lockop' = [lockop EXCEPT ![p] =
                       [NoLockOp EXCEPT
                           !.op = "send_toggle_signal", !.pc = "ret", !.pid = target,
                           !.sent = (out = "ok"),
                           !.ret = IF out = "ok" THEN ReturnsBool(TRUE)
                                   ELSE IF out \in ToggleCaught THEN ReturnsBool(FALSE)
                                   ELSE Raises(out)]]
    /\ UNCHANGED <<lock, status>>
    /\ UNCHANGED exceptLock

LockNext ==
    \E p \in Pids :
        \/ \E target \in Pids : SendToggleSignal(p, target)
        \/ Spawn(p)
        \/ Die(p)
        \/ GetRunningPidCall(p)
        \/ GetRunningPidRead(p)
        \/ GetRunningPidKill(p)
        \/ GetRunningPidUnlink(p)
        \/ LockReturn(p)
        \/ CreateLockOpen(p)
        \/ CreateLockWrite(p)
        \/ RemoveLock(p)

LockSpec == LockInit /\ [][LockNext]_allVars


\* ------------------------------------------------- the launched application
\* the process exists
Running(a) == a.pc \notin {"unborn", "exited"}

\* the process has built LinvocApplication: it is an application instance
Instance(a) == a.pc \in {"locked", "running"}

\* lock_scope = DAEMON_SCOPE if args.daemon else DEFAULT_SCOPE
LockScope(mode) == IF mode = "daemon" THEN DAEMON_SCOPE ELSE DEFAULT_SCOPE

\* get_running_pid(scope) as one step: what it returns (NotAPid for None)
\* and what it leaves of the lock file
GetRunningPid(l, apps) ==
    IF ~l.exists THEN [pid |-> NotAPid, lock |-> l]
    ELSE IF l.text = NotAPid THEN [pid |-> NotAPid, lock |-> Absent]
    ELSE IF Running(apps[l.text]) THEN [pid |-> l.text, lock |-> l]
    ELSE [pid |-> NotAPid, lock |-> Absent]

\* the process leaves with this exit code
Exit(a, code, how) == [a EXCEPT !.pc = "exited", !.code = code, !.how = how]

\* SIGUSR1 arrives at a process: _on_toggle_signal once LinvocApplication has
\* installed it, the default action (the process is terminated) before
Sigusr1(a) ==
    IF a.pc = "running" THEN [a EXCEPT !.toggled = TRUE]
    ELSE Exit(a, "none", "sigusr1")

AppInit ==
    /\ EngineIdle /\ FilterIdle /\ BackendIdle /\ FactoryIdle /\ LockIdle /\ PathIdle /\ SignalIdle
    /\ AppFresh

\* `linvoc`, `linvoc --daemon` or `linvoc --toggle` is launched
Launch(p) ==
    /\ app[p].pc = "unborn"
    /\ \E mode \in {"plain", "daemon", "toggle"} :
         app' = [app EXCEPT ![p] = [NotLaunched EXCEPT
                    !.mode = mode,
                    !.pc = IF mode = "toggle" THEN "toggle_lookup" ELSE "check"]]
    /\ UNCHANGED locks
    /\ UNCHANGED exceptApp

\* main: the --toggle branch, `existing_pid = get_running_pid(scope=DAEMON_SCOPE)`
ToggleLookup(p) ==
    /\ app[p].pc = "toggle_lookup"
    /\ LET got == GetRunningPid(locks[DAEMON_SCOPE], app)
       IN /\ locks' = [locks EXCEPT ![DAEMON_SCOPE] = got.lock]
          /\ app' = [app EXCEPT ![p] =
                       IF got.pid = NotAPid THEN Exit(@, "1", "return")
                       ELSE [@ EXCEPT !.pc = "toggle_signal", !.existing = got.pid]]
    /\ UNCHANGED exceptApp

\* main: the --toggle branch, send_toggle_signal
ToggleSignal(p) ==
    /\ app[p].pc = "toggle_signal"
    /\ LET t == app[p].existing
       IN app' = IF Running(app[t])
                 THEN [app EXCEPT ![p] = Exit(@, "0", "return"), ![t] = Sigusr1(@)]
                 ELSE [app EXCEPT ![p] = Exit(@, "1", "return")]
    /\ UNCHANGED locks
    /\ UNCHANGED exceptApp

\* main: check_dependencies(args.engine)
CheckDependencies(p) ==
    /\ app[p].pc = "check"
    /\ \E ok \in BOOLEAN :
         app' = [app EXCEPT ![p] = IF ok THEN [@ EXCEPT !.pc = "lookup"]
                                   ELSE Exit(@, "1", "return")]
    /\ UNCHANGED locks
    /\ UNCHANGED exceptApp

\* main: `existing_pid = get_running_pid(scope=lock_scope)`
LookupInstance(p) ==
    /\ app[p].pc = "lookup"
    /\ LET sc == LockScope(app[p].mode)
           got == GetRunningPid(locks[sc], app)
       IN /\ locks' = [locks EXCEPT ![sc] = got.lock]
          /\ app' = [app EXCEPT ![p] =
                       IF got.pid = NotAPid THEN [@ EXCEPT !.pc = "build"]
                       ELSE IF app[p].mode = "daemon" THEN Exit(@, "0", "return")
                       ELSE [@ EXCEPT !.pc = "signal", !.existing = got.pid]]
    /\ UNCHANGED exceptApp

\* main: `if send_toggle_signal(existing_pid): return 0`, else go on and
\* launch a new instance
SignalExisting(p) ==
    /\ app[p].pc = "signal"
    /\ LET t == app[p].existing
       IN app' = IF Running(app[t])
                 THEN [app EXCEPT ![p] = Exit(@, "0", "return"), ![t] = Sigusr1(@)]
                 ELSE [app EXCEPT ![p] = [@ EXCEPT !.pc = "build"]]
    /\ UNCHANGED locks
    /\ UNCHANGED exceptApp

\* LinvocApplication.__init__ up to create_lock(scope=self._lock_scope)
CreateLock(p) ==
    /\ app[p].pc = "build"
    /\ locks' = [locks EXCEPT ![LockScope(app[p].mode)] = Record(p)]
    /\ app' = [app EXCEPT ![p] = [@ EXCEPT !.pc = "locked"]]
    /\ UNCHANGED exceptApp

\* LinvocApplication.__init__: signal.signal(...), then run() and the event loop
InstallHandlers(p) ==
    /\ app[p].pc = "locked"
    /\ app' = [app EXCEPT ![p] = [@ EXCEPT !.pc = "running"]]
    /\ UNCHANGED locks
    /\ UNCHANGED exceptApp

\* SIGINT or SIGTERM: LinvocApplication.quit
Quit(p) ==
    /\ app[p].pc = "running"
    /\ locks' = [locks EXCEPT ![LockScope(app[p].mode)] = Absent]
    /\ app' = [app EXCEPT ![p] = Exit(@, "0", "quit")]
    /\ UNCHANGED exceptApp

\* the close button, Escape or a right click: MicrophoneWidget.close(),
\* closeEvent, QApplication.quit(); app.exec() returns and main with it
CloseWidget(p) ==
    /\ app[p].pc = "running"
    /\ app' = [app EXCEPT ![p] = Exit(@, "0", "close")]
    /\ UNCHANGED locks
    /\ UNCHANGED exceptApp

\* the process is killed or crashes
Crash(p) ==
    /\ Running(app[p])
    /\ app' = [app EXCEPT ![p] = Exit(@, "none", "killed")]
    /\ UNCHANGED locks
    /\ UNCHANGED exceptApp

AppNext ==
    \E p \in Pids :
        \/ Launch(p)
        \/ ToggleLookup(p)
        \/ ToggleSignal(p)
        \/ CheckDependencies(p)
        \/ LookupInstance(p)
        \/ SignalExisting(p)
        \/ CreateLock(p)
        \/ InstallHandlers(p)
        \/ Quit(p)
        \/ CloseWidget(p)
        \/ Crash(p)

AppSpec == AppInit /\ [][AppNext]_allVars


\* ------------------------------------ the model directory of the streaming engine
\* os.path.expanduser("~")
HOME == <<"/", "h", "o", "m", "e", "/", "u">>

\* VoskEngine.DEFAULT_MODEL_DIRS
DEFAULT_MODEL_DIRS ==
    << HOME \o <<"/", ".", "c", "o", "n", "f", "i", "g", "/", "n", "e", "r", "d", "-", "d", "i", "c", "t", "a", "t", "i", "o", "n", "/", "m", "o", "d", "e", "l">>,
       HOME \o <<"/", ".", "l", "o", "c", "a", "l", "/", "s", "h", "a", "r", "e", "/", "v", "o", "s", "k">> >>

\* `sub in s` on str
Contains(sub, s) ==
    \E i \in 1..(Len(s) - Len(sub) + 1) : SubSeq(s, i, i + Len(sub) - 1) = sub

\* str.lower(), on the letters that occur in the names below
Lower(s) ==
    [i \in 1..Len(s) |-> IF s[i] = "F" THEN "f" ELSE IF s[i] = "R" THEN "r" ELSE s[i]]

\* os.path.join(base_dir, entry)
Join(base_dir, name) == base_dir \o <<"/">> \o name

\* language codes
Languages == {<<"f", "r">>, <<"d", "e">>, <<"e", "n">>}

\* names of subdirectories a default directory may hold
EntryNames == {<<"v", "o", "s", "k", "-", "m", "o", "d", "e", "l", "-", "s", "m", "a", "l", "l", "-", "f", "r">>, <<"v", "o", "s", "k", "-", "m", "o", "d", "e", "l", "-", "d", "e">>, <<"F", "R">>}

\* the model_dir argument: None, "", or a directory name
ModelDirArgs == {None, Some(<<>>), Some(<<"/", "m">>)}

\* a default directory: whether it is a directory, its subdirectories, and
\* whether am/final.mdl exists in it
DirStates ==
    {NoDir} \cup [isdir : {TRUE}, entries : SUBSET EntryNames, mdl : BOOLEAN]

\* `if self.model_dir and os.path.isdir(self.model_dir)`
ValidExplicit(r) == Truthy(r.model_dir) /\ r.explicit_isdir

\* `"vosk-model" in base_dir or self.language in base_dir`
IsModelItself(language, base_dir) ==
    Contains(<<"v", "o", "s", "k", "-", "m", "o", "d", "e", "l">>, base_dir) \/ Contains(language, base_dir)

\* the subdirectories the loop over os.listdir(base_dir) can return: the first
\* one, in the order listdir gives, whose lowered name contains the language
Matching(language, d) == {e \in d.entries : Contains(language, Lower(e))}

\* VoskEngine.get_model_path from default directory i on: the paths it can
\* return (os.listdir gives the entries in any order)
RECURSIVE SearchDefaults(_, _, _)
SearchDefaults(language, dirs, i) ==
    IF i > Len(DEFAULT_MODEL_DIRS) THEN {DEFAULT_MODEL_DIRS[1]}
    ELSE LET base_dir == DEFAULT_MODEL_DIRS[i]
             d == dirs[i]
         IN IF ~d.isdir THEN SearchDefaults(language, dirs, i + 1)
            ELSE IF IsModelItself(language, base_dir) THEN {base_dir}
            ELSE IF Matching(language, d) # {}
            THEN {Join(base_dir, e) : e \in Matching(language, d)}
            ELSE IF d.mdl THEN {base_dir}
            ELSE SearchDefaults(language, dirs, i + 1)

\* VoskEngine.get_model_path (DictationManager.get_model_path)
GetModelPaths(r) ==
    IF ValidExplicit(r) THEN {r.model_dir.text}
    ELSE SearchDefaults(r.language, r.dirs, 1)

\* os.path.isdir(path) for a path get_model_path returned
IsDir(r, path) ==
    \/ ValidExplicit(r) /\ path = r.model_dir.text
    \/ \E i \in 1..Len(DEFAULT_MODEL_DIRS) :
         /\ r.dirs[i].isdir
         /\ \/ path = DEFAULT_MODEL_DIRS[i]
            \/ \E e \in r.dirs[i].entries : path = Join(DEFAULT_MODEL_DIRS[i], e)

\* VoskEngine.is_available: has_nerd_dictation() and is_model_available()
VoskAvailable(r) == r.binary /\ IsDir(r, r.path)

PathInit ==
    /\ EngineIdle /\ FilterIdle /\ BackendIdle /\ FactoryIdle /\ LockIdle /\ AppIdle /\ SignalIdle
    /\ resolving \in
         [language : Languages, model_dir : ModelDirArgs, explicit_isdir : BOOLEAN,
          dirs : {<<a, b>> : a \in DirStates, b \in DirStates}, binary : BOOLEAN,
          pc : {"init"}, path : {<<>>}, ret : {"none"}, state : {IDLE},
          spawned : {FALSE}]
    /\ Truthy(resolving.model_dir) \/ ~resolving.explicit_isdir

\* model_path = self.get_model_path()
GetModelPathCall ==
    /\ resolving.pc = "init"
    /\ \E path \in GetModelPaths(resolving) :
         resolving' = [resolving EXCEPT !.pc = "resolved", !.path = path]
    /\ UNCHANGED exceptPath

\* VoskEngine.start in state Idle, after get_model_path: the lookup of
\* nerd-dictation and the Popen call
VoskStart ==
    /\ resolving.pc = "resolved"
    /\ \E popen_ok \in BOOLEAN :
         resolving' =
            IF ~resolving.binary
            THEN [resolving EXCEPT !.pc = "started", !.ret = "False", !.state = ERROR]
            ELSE IF popen_ok
            THEN [resolving EXCEPT !.pc = "started", !.ret = "True", !.state = RECORDING,
                                   !.spawned = TRUE]
            ELSE [resolving EXCEPT !.pc = "started", !.ret = "False", !.state = ERROR]
    /\ UNCHANGED exceptPath

PathNext ==
    \/ GetModelPathCall
    \/ VoskStart

PathSpec == PathInit /\ [][PathNext]_allVars

\* ------------------------------------- toggle requests and the main thread
\* VoskEngine.start and stop as the main thread runs them, statement by
\* statement, while toggle requests arrive: a SIGUSR1 handler runs in the
\* main thread between two statements of whatever that thread is executing,
\* so a toggle can run to completion in the middle of a start() or stop().
\* `stack` holds the calls in progress, the interrupted ones below the
\* running one; recognizers are numbered in the order they were spawned.

\* the call the main thread is executing
Top == vosk.stack[Len(vosk.stack)]

Frame(method) == [fn |-> method, pc |-> "begin", target |-> 0]

\* the running call moves to statement `at`
Goto(v, at) ==
    [v EXCEPT !.stack = [v.stack EXCEPT ![Len(v.stack)].pc = at]]

\* the running call returns to what it interrupted
Pop(v) == [v EXCEPT !.stack = SubSeq(v.stack, 1, Len(v.stack) - 1)]

\* `None.terminate()`, `None.wait()` or `None.kill()`: the AttributeError is
\* caught by no except clause of stop() or start(), stop()'s `finally` clears
\* the handle, and the exception leaves every call in progress
Unwind(v) == [v EXCEPT !.stack = <<>>, !.process = 0]

SignalInit ==
    /\ vosk = SignalFresh
    /\ EngineIdle /\ FilterIdle /\ BackendIdle /\ FactoryIdle /\ LockIdle /\ AppIdle
    /\ PathIdle

\* _on_toggle_signal / toggle_recording: `if self._dictation.state ==
\* DictationState.RECORDING: ... stop() else: ... start()`
ToggleRequest ==
    /\ vosk.toggles < MaxToggles
    /\ Len(vosk.stack) < MaxNesting
    /\ vosk' = [vosk EXCEPT
                  !.toggles = @ + 1,
                  !.stack = Append(@, Frame(IF vosk.state = RECORDING
                                            THEN "stop" ELSE "start"))]
    /\ UNCHANGED exceptSignal

\* start(): `if self._state == DictationState.RECORDING: return False`, then
\* the lookup of the nerd-dictation executable
VoskStartGuard ==
    /\ vosk.stack # <<>> /\ Top.fn = "start" /\ Top.pc = "begin"
    /\ IF vosk.state = RECORDING
       THEN vosk' = Pop(vosk)
       ELSE \E found \in BOOLEAN :
              vosk' = IF found THEN Goto(vosk, "popen")
                      ELSE Pop([vosk EXCEPT !.state = ERROR])
    /\ UNCHANGED exceptSignal

\* `subprocess.Popen(cmd, ...)`: the recognizer runs, or Popen raises
VoskStartPopen ==
    /\ vosk.stack # <<>> /\ Top.fn = "start" /\ Top.pc = "popen"
    /\ \E popen_ok \in BOOLEAN :
         vosk' = IF popen_ok
                 THEN [Goto(vosk, "assign") EXCEPT
                         !.spawned = @ + 1,
                         !.stack[Len(vosk.stack)].target = vosk.spawned + 1]
                 ELSE Pop([vosk EXCEPT !.state = ERROR])
    /\ UNCHANGED exceptSignal

\* `self._process = <the Popen object>`
VoskStartAssign ==
    /\ vosk.stack # <<>> /\ Top.fn = "start" /\ Top.pc = "assign"
    /\ vosk' = [Goto(vosk, "state") EXCEPT !.process = Top.target]
    /\ UNCHANGED exceptSignal

\* `self.state = DictationState.RECORDING; return True`
VoskStartState ==
    /\ vosk.stack # <<>> /\ Top.fn = "start" /\ Top.pc = "state"
    /\ vosk' = Pop([vosk EXCEPT !.state = RECORDING])
    /\ UNCHANGED exceptSignal

\* stop(): `if self._state != DictationState.RECORDING: return ""`,
\* `self.state = DictationState.PROCESSING`
VoskStopGuard ==
    /\ vosk.stack # <<>> /\ Top.fn = "stop" /\ Top.pc = "begin"
    /\ vosk' = IF vosk.state # RECORDING THEN Pop(vosk)
               ELSE Goto([vosk EXCEPT !.state = PROCESSING], "check")
    /\ UNCHANGED exceptSignal

\* `if self._process:`
VoskStopCheck ==
    /\ vosk.stack # <<>> /\ Top.fn = "stop" /\ Top.pc = "check"
    /\ vosk' = Goto(vosk, IF vosk.process # 0 THEN "terminate" ELSE "idle")
    /\ UNCHANGED exceptSignal

\* `self._process.terminate()`, or OSError
VoskStopTerminate ==
    /\ vosk.stack # <<>> /\ Top.fn = "stop" /\ Top.pc = "terminate"
    /\ IF vosk.process = 0
       THEN vosk' = Unwind(vosk)
       ELSE \E raised \in BOOLEAN :
              vosk' = IF raised THEN Goto(vosk, "kill")
                      ELSE [Goto(vosk, "wait") EXCEPT
                              !.signalled = @ \cup {vosk.process}]
    /\ UNCHANGED exceptSignal

\* `self._process.wait(timeout=2)` is called on the handle as it is now
VoskStopWait ==
    /\ vosk.stack # <<>> /\ Top.fn = "stop" /\ Top.pc = "wait"
    /\ vosk' = IF vosk.process = 0 THEN Unwind(vosk)
               ELSE [Goto(vosk, "waiting") EXCEPT
                       !.stack[Len(vosk.stack)].target = vosk.process]
    /\ UNCHANGED exceptSignal

\* the wait ends: the recognizer exited, or TimeoutExpired
VoskStopWaited ==
    /\ vosk.stack # <<>> /\ Top.fn = "stop" /\ Top.pc = "waiting"
    /\ \E exited \in BOOLEAN :
         vosk' = Goto(vosk, IF exited THEN "finally" ELSE "kill")
    /\ UNCHANGED exceptSignal

\* `self._process.kill()` with `except (ProcessLookupError, OSError): pass`
VoskStopKill ==
    /\ vosk.stack # <<>> /\ Top.fn = "stop" /\ Top.pc = "kill"
    /\ vosk' = IF vosk.process = 0 THEN Unwind(vosk)
               ELSE [Goto(vosk, "finally") EXCEPT
                       !.signalled = @ \cup {vosk.process}]
    /\ UNCHANGED exceptSignal

\* `finally: self._process = None`
VoskStopFinally ==
    /\ vosk.stack # <<>> /\ Top.fn = "stop" /\ Top.pc = "finally"
    /\ vosk' = [Goto(vosk, "idle") EXCEPT !.process = 0]
    /\ UNCHANGED exceptSignal

\* `self.state = DictationState.IDLE; return ""`
VoskStopIdle ==
    /\ vosk.stack # <<>> /\ Top.fn = "stop" /\ Top.pc = "idle"
    /\ vosk' = Pop([vosk EXCEPT !.state = IDLE])
    /\ UNCHANGED exceptSignal

SignalNext ==
    \/ ToggleRequest
    \/ VoskStartGuard
    \/ VoskStartPopen
    \/ VoskStartAssign
    \/ VoskStartState
    \/ VoskStopGuard
    \/ VoskStopCheck
    \/ VoskStopTerminate
    \/ VoskStopWait
    \/ VoskStopWaited
    \/ VoskStopKill
    \/ VoskStopFinally
    \/ VoskStopIdle

SignalSpec == SignalInit /\ [][SignalNext]_allVars

\* ------------------------------------------------------------------ claims
\* the engine-side fields a call may touch
engineVars == <<state, pending, callbacks, process, procs, recording, frames,
                audio_thread, threads, model, injector, transcribed, injected,
                texts, heard, signals>>

\* the running call has reached its return statement and the callbacks it
\* triggered have run
AtReturn == pc = "ret" /\ pending[CONTROL] = "none"

\* C1: on every engine, a start() whose body is entered while the state is
\* Recording returns False at once and touches nothing: the state stays
\* Recording, no callback fires, no recognizer process or capture thread starts.
C1_StartRejectedWhileRecording ==
    [][ (pc = "start_begin" /\ pc' # pc /\ state = RECORDING)
          => /\ pc' = "ret"
             /\ call = "start" => ret' = RetBool(FALSE)
             /\ UNCHANGED engineVars ]_vars

\* C2: on every engine, a stop() whose body is entered while the state is
\* Idle, Processing or Error returns "" at once and touches nothing.
C2_StopNoOpUnlessRecording ==
    [][ (pc = "stop_begin" /\ pc' # pc /\ state # RECORDING)
          => /\ pc' = "ret"
             /\ ret' = RetStr(<<>>)
             /\ UNCHANGED engineVars ]_vars

\* C3: the state-change callback is edge-triggered.  Every step that changes
\* the state leaves exactly one callback to run, for the new state, in the
\* thread that assigned it; a step that leaves the state as it is (an
\* assignment of the current state included) leaves none; and a callback runs
\* only to deliver such a notification, once.
C3_EdgeTriggered ==
    [][ /\ state' # state =>
              \E w \in ThreadIds :
                  /\ pending[w] = "none"
                  /\ pending' = [pending EXCEPT ![w] = state']
                  /\ callbacks' = callbacks
        /\ state' = state =>
              \/ pending' = pending /\ callbacks' = callbacks
              \/ pending' = pending /\ pc = "ret" /\ pc' = "idle" /\ callbacks' = <<>>
              \/ \E w \in ThreadIds :
                  /\ pending[w] # "none"
                  /\ pending' = [pending EXCEPT ![w] = "none"]
                  /\ callbacks' = Append(callbacks, pending[w]) ]_vars

\* C3 witness: a streaming engine's start() failed while the state already
\* was Error: Error was assigned again and no callback ran.
C3_SameStateAssigned ==
    /\ kind \in StreamingKinds
    /\ AtReturn /\ call = "start" /\ fault # "none"
    /\ entry = ERROR /\ state = ERROR
    /\ callbacks = <<>>

\* C4: toggle() is pure dispatch: it enters stop() when the state is Recording
\* and start() otherwise, changes nothing itself, and returns stop()'s result
\* in the first case and None in the second.
C4_ToggleDispatch ==
    [][ /\ (pc = "idle" /\ call' = "toggle")
            => /\ fn' = (IF state = RECORDING THEN "stop" ELSE "start")
               /\ pc' = (IF state = RECORDING THEN "stop_begin" ELSE "start_begin")
               /\ UNCHANGED engineVars
        /\ (call = "toggle" /\ pc # "ret" /\ pc' = "ret")
            => IF fn = "start" THEN ret' = RetNone ELSE ret' = RetStr(<<>>) ]_vars

\* C4 witness: a toggle() made in Recording ran stop() through a full
\* recording and hands back its result.
C4_ToggleStopped ==
    /\ AtReturn /\ call = "toggle" /\ fn = "stop"
    /\ entry = RECORDING /\ state = IDLE /\ ret = RetStr(<<>>)

\* C5: stop() and toggle() never hand text to their caller: whatever was
\* transcribed, stop() returns the empty string on every path.
C5_StopReturnsNoText ==
    /\ ret.val = <<>>
    /\ (pc = "ret" /\ fn = "stop") => ret = RetStr(<<>>)

\* C5 witness: a stop() that transcribed and reported text is about to return.
C5_TextWasTranscribed ==
    AtReturn /\ fn = "stop" /\ texts # <<>> /\ injected # <<>>

\* the state changes the engine's state machine allows
AllowedTransitions ==
    { <<IDLE, RECORDING>>, <<RECORDING, PROCESSING>>, <<PROCESSING, IDLE>>,
      <<IDLE, ERROR>>, <<RECORDING, ERROR>>, <<ERROR, RECORDING>> }

\* C6: every change of the state is one of Idle->Recording,
\* Recording->Processing, Processing->Idle, Idle->Error, Recording->Error,
\* Error->Recording.
C6_OnlyAllowedTransitions ==
    [][ state' # state => <<state, state'>> \in AllowedTransitions ]_vars

\* C7: once the state is Error it leaves Error only through a step of the
\* control thread inside start().
C7_ErrorClearedOnlyByStart ==
    [][ (state = ERROR /\ state' # ERROR) => (fn = "start" /\ pc' # pc) ]_vars

\* C8: a start() during which a setup failure occurred returns False and
\* leaves the state Error: a failure met by the control thread (binary not
\* found, spawn error, missing dependency, model load failure) and a failure
\* met by the capture thread this start() has just launched (PyAudio missing,
\* microphone not opened).
C8_SetupFailureFailsStart ==
    [][ (call = "start" /\ pc # "ret" /\ pc' = "ret")
          => /\ fault' # "none" => (ret' = RetBool(FALSE) /\ state' = ERROR)
             /\ ( /\ pc = "start_state"
                  /\ threads[audio_thread] \in {"fail_state", "fail_flag"} )
                   => (ret' = RetBool(FALSE) /\ state' = ERROR) ]_vars

\* C9: when the model call of a stop() entered in Recording raised, stop()
\* finishes by assigning Idle and returning "", and nothing was injected or
\* reported.
C9_TranscriptionFaultEndsIdle ==
    [][ ( /\ fn = "stop" /\ entry = RECORDING
          /\ heard # <<>> /\ heard[Len(heard)].raised
          /\ pc # "ret" /\ pc' = "ret" )
          => /\ state' = IDLE
             /\ ret' = RetStr(<<>>)
             /\ injected' = <<>> /\ texts' = <<>> ]_vars

\* C9 witness: a buffered engine's stop() returns after a model call that raised.
C9_TranscriptionRaised ==
    /\ kind \in BufferedKinds
    /\ AtReturn /\ fn = "stop" /\ entry = RECORDING
    /\ transcribed # <<>> /\ heard # <<>> /\ heard[1].raised
    /\ state = IDLE

\* a segment that is plain speech: stripping leaves text and filtering leaves
\* that text as it is
PlainSpeech(seg) ==
    Strip(seg) # <<>> /\ FilterNonSpeech(Strip(seg)) = Strip(seg)

\* C10: on every buffered engine, when the model call of a stop() returned one
\* segment of plain speech and an injection backend is at hand, inject_text was
\* called with that text and one trailing space and on_text with the text, by
\* the time stop() clears the buffer.
C10_TextInjectedWithSpace ==
    ( /\ kind \in BufferedKinds /\ fn = "stop" /\ pc \in {"stop_clear", "stop_idle", "ret"}
      /\ heard # <<>> /\ ~heard[1].raised /\ heard[1].backend
      /\ Len(heard[1].segs) = 1 /\ PlainSpeech(heard[1].segs[1]) )
      => /\ injected = << Strip(heard[1].segs[1]) \o <<" ">> >>
         /\ texts = << Strip(heard[1].segs[1]) >>

\* C11: the filter turns "[Musique] Bonjour (Applaudissements) le monde..."
\* into exactly "Bonjour le monde": single spaces between the three words,
\* nothing before or after them.
C11_FilterExample ==
    (filtering.done /\ filtering.text = AnnotatedPhrase)
        => filtering.out = <<"B","o","n","j","o","u","r"," ","l","e"," ","m","o","n","d","e">>

\* the commands of the running call that belong to one stage
RunsOf(cmds) == SelectSeq(launched, LAMBDA r : r.cmd \in cmds)

\* the running call wrote the clipboard
ClipboardWritten == \E i \in 1..Len(launched) :
                        launched[i].cmd \in {"wl-copy", "xclip"} /\ launched[i].out = "zero"

\* C12: PortalBackend pastes by trying ydotool, then wtype, then xdotool, in
\* that order; it stops at the first one that exits zero and goes on after
\* every one that does not; inject_text returns True exactly when one of them
\* exited zero -- so also when the first two failed and the third succeeded.
C12_PasteFallback ==
    ( /\ backend_name = "portal" /\ ipc \in {"finally", "ret"}
      /\ itext # <<>> /\ ClipboardWritten )
      => LET runs == RunsOf({"ydotool key", "wtype", "xdotool key"}) IN
         /\ Len(runs) \in 1..3
         /\ \A i \in 1..Len(runs) : runs[i].cmd = <<"ydotool key", "wtype", "xdotool key">>[i]
         /\ \A i \in 1..(Len(runs) - 1) : runs[i].out # "zero"
         /\ Len(runs) < 3 => runs[Len(runs)].out = "zero"
         /\ iret = "True" <=> \E i \in 1..Len(runs) : runs[i].out = "zero"

\* C12 witness: ydotool exited non-zero, wtype could not be run, xdotool
\* exited zero, and inject_text returns True.
C12_ThirdToolPasted ==
    /\ backend_name = "portal" /\ ipc = "ret" /\ iret = "True"
    /\ RunsOf({"ydotool key", "wtype", "xdotool key"}) =
           << Ran("ydotool key", "nonzero"), Ran("wtype", "raised"), Ran("xdotool key", "zero") >>

\* C13: on every backend whose command was found, inject_text("") returns
\* True, runs no external command (no clipboard tool, no keystroke tool, no
\* daemon check) and starts no restore thread.
C13_EmptyTextNoOp ==
    [][ (ipc = "begin" /\ itext = <<>> /\ tool_path /\ ipc' # ipc)
          => /\ ipc' = "ret" /\ iret' = "True"
             /\ launched' = <<>>
             /\ restorers' = restorers /\ clipboard' = clipboard ]_allVars

\* C14: for a non-empty text inject_text never raises; it returns True only if
\* the last command run is a delivery command that exited zero, False when no
\* command exited zero, and in PortalBackend False with no keystroke command
\* run when the clipboard could not be written.
C14_InjectNeverRaises ==
    (ipc = "ret" /\ itext # <<>>)
      => /\ iret \in {"True", "False"}
         /\ iret = "True" =>
              /\ launched # <<>>
              /\ launched[Len(launched)].out = "zero"
              /\ launched[Len(launched)].cmd \in
                     {"xdotool type", "ydotool type", "ydotool key", "wtype", "xdotool key"}
         /\ (\A i \in 1..Len(launched) : launched[i].out # "zero") => iret = "False"
         /\ (backend_name = "portal" /\ ~ClipboardWritten)
              => /\ iret = "False"
                 /\ RunsOf({"ydotool key", "wtype", "xdotool key"}) = <<>>

\* every restore thread that was started has finished
RestoresDone == \A r \in 1..Len(restorers) : restorers[r].pc = "done"

\* C15: after any sequence of PortalBackend.inject_text calls in which every
\* external command exited zero, once no call is running and every restore
\* thread has finished, a clipboard that held text before the first injection
\* holds that text again.
C15_ClipboardRestored ==
    ( /\ backend_name = "portal" /\ ipc = "idle" /\ injections > 0
      /\ RestoresDone /\ all_zero /\ clipboard_orig # <<>> )
      => clipboard = clipboard_orig

\* C16: TextInjector.create with a forced backend name constructs only that
\* backend; it raises ValueError when the name is not xdotool, portal or
\* ydotool and RuntimeError when the backend is known and reports
\* unavailable, two different errors; in both cases the cached instance is
\* left as it was; when the backend reports available it becomes the cached
\* instance and is returned.
C16_ForcedCreate ==
    [][ ( /\ selecting.pc = "create" /\ Forced(selecting.force)
          /\ selecting'.pc = "ret" )
          => LET f == selecting.force
                 r == selecting'.ret
                 built == selecting'.built
             IN /\ \A i \in 1..Len(built) : built[i] = f
                /\ Len(built) <= 1
                /\ f \notin Backends
                     => r = Raise("ValueError") /\ instance' = instance /\ built = <<>>
                /\ (f \in Backends /\ selecting'.probed = <<"no">>)
                     => r = Raise("RuntimeError: unavailable") /\ instance' = instance
                /\ (f \in Backends /\ selecting'.probed = <<"yes">>)
                     => /\ instance' = [name |-> f, id |-> selections]
                        /\ r = [kind |-> "backend", obj |-> instance']
                /\ (f \in Backends /\ selecting'.probed # <<"raise">>)
                     => (r.kind = "backend" <=> is_available(f, env))
                /\ r.kind = "ValueError" <=> f \notin Backends
                /\ r.kind = "RuntimeError: unavailable" <=> selecting'.probed = <<"no">> ]_allVars

\* a forced create of a known, unavailable backend has raised while another
\* backend was cached, and that backend still is
C16_ForcedUnavailableKeepsSingleton ==
    /\ selecting.pc = "ret" /\ selecting.op = "create"
    /\ selecting.force \in Backends
    /\ selecting.ret = Raise("RuntimeError: unavailable")
    /\ selecting.before # NoObject
    /\ instance = selecting.before

C21_LiveRecordKept ==
    \A p \in Pids :
        ( /\ lockop[p].op = "get_running_pid" /\ lockop[p].pc = "ret"
          /\ lockop[p].alone
          /\ lockop[p].was = "live"
          /\ status[lockop[p].pid] \in {"alive", "foreign"} )
          => /\ lockop[p].ret = ReturnsPid(lockop[p].pid)
             /\ lock = Record(lockop[p].pid)

C23_SingleInstance ==
    \A sc \in Scopes :
        LET instances == {p \in Pids : Instance(app[p]) /\ LockScope(app[p].mode) = sc}
        IN /\ Cardinality(instances) <= 1
           /\ \A p \in instances : locks[sc] = Record(p)

\* C24: the lock record created at startup is removed on every clean
\* shutdown: once an application instance has ended through SIGINT or
\* SIGTERM (quit) or through the user closing the widget, the lock file of
\* its scope no longer holds the record it created.
C24_LockRemovedOnShutdown ==
    \A p \in Pids :
        (app[p].pc = "exited" /\ app[p].how \in {"quit", "close"})
          => locks[LockScope(app[p].mode)] # Record(p)

\* C28: `linvoc --toggle` toggles an instance that is already open, started
\* with or without --daemon: it exits with code 1 without sending a signal
\* only when no application instance is in its event loop, and it never
\* becomes an application instance itself.
C28_ToggleReachesInstance ==
    [][ \A p \in Pids :
          /\ ( /\ app[p].pc = "toggle_lookup"
               /\ app'[p].pc = "exited" /\ app'[p].code = "1" )
               => \A q \in Pids : app[q].pc # "running"
          /\ app[p].mode = "toggle" => ~Instance(app'[p]) ]_allVars

\* C25: model-path resolution of the streaming engine. For every language
\* code: a valid explicit model directory is returned whatever the default
\* directories hold; without one, when the first existing default directory
\* holds a subdirectory whose name contains the language code,
\* get_model_path returns such a subdirectory of it, not the default
\* directory itself and not the fallback path.
C25_ModelPathResolution ==
    resolving.pc \in {"resolved", "started"}
      => /\ ValidExplicit(resolving) => resolving.path = resolving.model_dir.text
         /\ \A i \in 1..Len(DEFAULT_MODEL_DIRS) :
              ( /\ ~ValidExplicit(resolving)
                /\ resolving.dirs[i].isdir
                /\ \A j \in 1..(i - 1) : ~resolving.dirs[j].isdir
                /\ \E e \in resolving.dirs[i].entries : Contains(resolving.language, e) )
                => \E e \in resolving.dirs[i].entries :
                     /\ Contains(resolving.language, Lower(e))
                     /\ resolving.path = Join(DEFAULT_MODEL_DIRS[i], e)

\* C26: an unavailable dependency is checked before starting. A start() of
\* the streaming engine made while is_available() is false (nerd-dictation
\* not found, or the resolved model directory missing) returns False,
\* spawns no recognizer process and does not bring the state to Recording.
C26_UnavailableStartRefused ==
    (resolving.pc = "started" /\ ~VoskAvailable(resolving))
      => /\ resolving.ret = "False"
         /\ ~resolving.spawned
         /\ resolving.state # RECORDING

C29_CaptureThreadLeavesStateAlone ==
    [][\A t \in CaptureIds :
          ( \/ threads[t] # "none" /\ threads'[t] # threads[t]
            \/ pending'[t] # pending[t] )
          => state' = state /\ callbacks' = callbacks]_allVars

\* C30: whenever stop() of a buffered engine is about to read and
\* transcribe the frame buffer, or to replace it, the capture thread it
\* waited for is no longer running, a timed-out join included.
C30_BufferWindowsDisjoint ==
    (kind \in BufferedKinds /\ pc \in {"stop_transcribe", "stop_clear"})
      => ~Alive(audio_thread)

\* C31: in a buffered engine at most one capture thread is in its recording
\* loop (alive and appending frames) at any time, whatever start(), stop()
\* and toggle() calls were made, a start() after a timed-out join included.
C31_OneCaptureThread ==
    kind \in BufferedKinds
      => Cardinality({t \in CaptureIds : threads[t] \in {"loop", "read"}}) <= 1

\* C32: a stop() of a buffered engine called in Recording discards no
\* audio: the buffer it replaces after the transcription holds exactly the
\* frames it handed to the model, in capture order and in one invocation, and
\* the buffer is empty when the call returns.
C32_NoAudioDiscarded ==
    [][( /\ kind \in BufferedKinds /\ fn = "stop" /\ entry = RECORDING )
         => /\ (pc = "stop_clear" /\ pc' = "stop_idle")
                 => transcribed = <<frames>>
            /\ (pc = "ret" /\ pc' = "idle")
                 => frames = <<>>]_allVars

\* C33: a stop() of a buffered engine makes at most one injection and at
\* most one on_text report, whatever number of segments the model returned.
C33_OneInjectionPerStop ==
    (kind \in BufferedKinds /\ fn = "stop" /\ pc = "ret")
      => Len(injected) <= 1 /\ Len(texts) <= 1

\* C34: no text a buffered engine hands to inject_text or to on_text
\* contains a known non-speech marker.
C34_NoMarkerDelivered ==
    kind \in BufferedKinds
      => \A m \in 1..Len(NON_SPEECH_MARKERS) :
            /\ \A i \in 1..Len(texts) : ~Contains(NON_SPEECH_MARKERS[m], texts[i])
            /\ \A i \in 1..Len(injected) : ~Contains(NON_SPEECH_MARKERS[m], injected[i])

\* C35: in a buffered engine, whenever no call is in progress and no
\* capture thread is still in its setup, the state is Recording exactly when
\* the capture flag _recording is true.
C35_RecordingIffCapturing ==
    ( /\ kind \in BufferedKinds /\ pc = "idle"
      /\ \A t \in CaptureIds :
            threads[t] \notin {"import", "open", "fail_state", "fail_flag"} )
      => (state = RECORDING <=> recording)

\* C36: in a buffered engine, whenever no thread has a state callback
\* still to deliver, the state most recently delivered to on_state_change
\* is the engine's current state.
C36_LastNotificationIsState ==
    ( /\ kind \in BufferedKinds
      /\ \A t \in ThreadIds : pending[t] = "none"
      /\ callbacks # <<>> )
      => callbacks[Len(callbacks)] = state

\* C37: with toggle requests delivered at any moment, a stop() that is
\* waiting for the recognizer included, whenever the streaming engine is Idle
\* and no call is in progress the process handle is empty and every
\* recognizer the engine spawned has been sent terminate or kill.
C37_NoOrphanRecognizer ==
    (vosk.state = IDLE /\ vosk.stack = <<>>)
      => /\ vosk.process = 0
         /\ \A p \in 1..vosk.spawned : p \in vosk.signalled

\* C38: whenever get_recommended_backend returns something other than
\* "none", a TextInjector.create() without a forced name, none of whose
\* availability probes raised, returns a backend instead of raising the
\* no-backend error.
C38_RecommendedIsSelectable ==
    ( /\ selecting.pc = "ret" /\ selecting.op = "create"
      /\ ~Forced(selecting.force)
      /\ selecting.rec # "none"
      /\ selecting.rec = get_recommended_backend(env)
      /\ \A i \in 1..Len(selecting.probed) : selecting.probed[i] # "raise" )
      => selecting.ret.kind = "backend"

\* C39: remove_lock run by one process (LinvocApplication.quit) never
\* deletes a lock record that holds the PID of a different process that is
\* still running.
C39_RemovesOnlyOwnLock ==
    [][ \A p \in Pids, q \in Pids, sc \in Scopes :
          ( /\ app[p].pc = "running"
            /\ app'[p].pc = "exited" /\ app'[p].how = "quit"
            /\ q # p /\ Running(app[q])
            /\ locks[sc] = Record(q) )
            => locks'[sc] = Record(q) ]_allVars

\* C40: every frame a stop() of a buffered engine hands to the model was
\* captured by the capture thread of the session that this stop() ends, not
\* by the thread of an earlier session.
C40_FramesOfThisSession ==
    (kind \in BufferedKinds /\ fn = "stop")
      => \A i \in 1..Len(transcribed) :
            \A j \in 1..Len(transcribed[i]) : transcribed[i][j] = audio_thread

====
